---- MODULE Spec2Model ----
(***************************************************************************)
(* Model of the extractive summarizer of the Email-bot repository          *)
(* (src/app/services/summarizer.py).  Texts are TLA+ strings; a character  *)
(* is a string of length one.  Every regular expression of the source is   *)
(* modelled by a scanner that computes what Python's re module computes    *)
(* for it on texts over ASCII.                                             *)
(***************************************************************************)
EXTENDS Integers, Sequences, FiniteSets, TLC

\* one call of Summarizer.summarize: its argument, the max_sentences of the
\* instance, the place in its body and its local variables
VARIABLES text, max_sentences, pc, cleaned_text, sentences, word_freq,
          scored_sentences, top_sentences, result

\* calls of summarize_email from several threads: the module's singleton,
\* the local variables of the call each thread is in, and the texts and
\* results of the calls that have returned
VARIABLES summarizer, frame, returned

\* _process_emails_with_ai on one email: the email, the stored Gemini key,
\* the place in summarize_and_classify_email, its result, and the list of
\* summaries handed to storage
VARIABLES email_data, api_key, ai_pc, ai_result, summaries

\* the list of records in the storage file data/summaries.json, and the
\* last call of a function of storage.py or of a fetch route: its name, its
\* arguments, the stored list it found and what it returned
VARIABLES stored, last_call

\* one request to POST /emails/fetch/gmail: the request, the local variables
\* of the handler, the place in its body and the response
VARIABLES request, new_summaries, current_page_token, pages_scanned, gmail_pc, response

summarizeVars == <<text, max_sentences, pc, cleaned_text, sentences, word_freq,
                   scored_sentences, top_sentences, result>>

callVars == <<summarizer, frame, returned>>

aiVars == <<email_data, api_key, ai_pc, ai_result, summaries>>

storeVars == <<stored, last_call>>

gmailVars == <<request, new_summaries, current_page_token, pages_scanned, gmail_pc, response>>

mailVars == <<storeVars, gmailVars>>

vars == <<summarizeVars, callVars, aiVars, mailVars>>

(***************************************************************************)
(* Characters and character classes of Python's re on str patterns.        *)
(***************************************************************************)
Ch(s, i) == SubSeq(s, i, i)

UPPER == "ABCDEFGHIJKLMNOPQRSTUVWXYZ"
LOWER == "abcdefghijklmnopqrstuvwxyz"
DIGITS == "0123456789"

UpperSet == {Ch(UPPER, i) : i \in 1..Len(UPPER)}
LowerSet == {Ch(LOWER, i) : i \in 1..Len(LOWER)}
DigitSet == {Ch(DIGITS, i) : i \in 1..Len(DIGITS)}

\* [a-zA-Z]
IsAlpha(c) == c \in UpperSet \cup LowerSet

\* \w : letters, digits and the underscore
IsWordChar(c) == c \in UpperSet \cup LowerSet \cup DigitSet \cup {"_"}

\* \s and str.strip(): the ASCII whitespace characters
IsSpace(c) == c \in {" ", "\t", "\n", "\r", "\f"}

LowerMap == [c \in UpperSet |-> Ch(LOWER, CHOOSE i \in 1..Len(UPPER) : Ch(UPPER, i) = c)]

LowerChar(c) == IF c \in UpperSet THEN LowerMap[c] ELSE c

\* the concatenation of strs[lo..hi], by halves: the depth of the recursion
\* is logarithmic in the number of strings
RECURSIVE GlueRange(_, _, _)
GlueRange(strs, lo, hi) ==
    IF lo > hi THEN ""
    ELSE IF lo = hi THEN strs[lo]
    ELSE LET mid == (lo + hi) \div 2
         IN  GlueRange(strs, lo, mid) \o GlueRange(strs, mid + 1, hi)

Glue(strs) == GlueRange(strs, 1, Len(strs))

\* str.lower()
Lower(s) == Glue([i \in 1..Len(s) |-> LowerChar(Ch(s, i))])

\* the least j in i..n with at[j], or n + 1 (i itself when i > n); at is a
\* function on 1..n that tells where a pattern matches
FirstFrom(i, n, at) ==
    IF i > n THEN i
    ELSE CHOOSE j \in i..(n + 1) : (j = n + 1 \/ at[j]) /\ \A k \in i..(j - 1) : ~at[k]

\* the greatest j in lo..hi with at[j], or 0
LastIn(lo, hi, at) ==
    IF \E j \in lo..hi : at[j]
    THEN CHOOSE j \in lo..hi : at[j] /\ \A k \in (j + 1)..hi : ~at[k]
    ELSE 0

\* s[i-1:] starts with p  (1-based i)
StartsWithAt(s, i, p) ==
    /\ i + Len(p) - 1 <= Len(s)
    /\ SubSeq(s, i, i + Len(p) - 1) = p

\* index of the first "\n" at or after i, or Len(s) + 1 : where '.*' stops
LineEnd(s, i) == FirstFrom(i, Len(s), [j \in 1..Len(s) |-> Ch(s, j) = "\n"])

\* index of the first non-whitespace character at or after i, or Len(s) + 1
SkipSpace(s, i) == FirstFrom(i, Len(s), [j \in 1..Len(s) |-> ~IsSpace(Ch(s, j))])

\* index of the first whitespace character at or after i, or Len(s) + 1
SkipNonSpace(s, i) == FirstFrom(i, Len(s), [j \in 1..Len(s) |-> IsSpace(Ch(s, j))])

\* Strip without the stripping
StripNothing(s) == s

\* str.strip()
Strip(s) ==
    SubSeq(s, SkipSpace(s, 1), LastIn(1, Len(s), [j \in 1..Len(s) |-> ~IsSpace(Ch(s, j))]))

(***************************************************************************)
(* Summarizer._clean_text : seven substitutions, each applied once, in the *)
(* order of the source.  A substitution is computed match by match: the    *)
(* text up to the leftmost match, then the substitution of the rest.       *)
(***************************************************************************)

\* '--\s*\n' matches at i : "--", then a whitespace run that holds a line feed
SignatureAt(s, i) ==
    /\ StartsWithAt(s, i, "--")
    /\ \E j \in (i + 2)..(SkipSpace(s, i + 2) - 1) : Ch(s, j) = "\n"

\* RemoveSignature without DOTALL: '.*' stops at the end of the line that
\* follows the delimiter, and the lines after it stay
RemoveSignatureLine(s) ==
    LET m == FirstFrom(1, Len(s), [i \in 1..Len(s) |-> SignatureAt(s, i)])
    IN  IF m > Len(s) THEN s
        ELSE SubSeq(s, 1, m - 1) \o SubSeq(s, LineEnd(s, SkipSpace(s, m + 2)), Len(s))

\* re.sub(r'--\s*\n.*', '', text, flags=re.DOTALL) : the text before the
\* leftmost match; with DOTALL '.*' runs to the end of the text
RemoveSignature(s) ==
    SubSeq(s, 1, FirstFrom(1, Len(s), [i \in 1..Len(s) |-> SignatureAt(s, i)]) - 1)

\* re.sub(p + r'.*', '', text, flags=re.IGNORECASE) : without DOTALL '.*'
\* stops before the next line feed; p is in lower case and ls is s.lower(),
\* so that a match of p in ls is a case-insensitive match in s
RECURSIVE RemoveBoilerplateFrom(_, _, _, _)
RemoveBoilerplateFrom(s, ls, p, i) ==
    LET m == FirstFrom(i, Len(s), [j \in 1..Len(s) |-> StartsWithAt(ls, j, p)])
    IN  IF m > Len(s) THEN SubSeq(s, i, Len(s))
        ELSE SubSeq(s, i, m - 1)
             \o RemoveBoilerplateFrom(s, ls, p, LineEnd(s, m + Len(p)))

\* RemoveBoilerplate with DOTALL: the first match runs to the end of the text
RemoveBoilerplateRest(s, p) ==
    SubSeq(s, 1, FirstFrom(1, Len(s), [j \in 1..Len(s) |-> StartsWithAt(Lower(s), j, p)]) - 1)

RemoveBoilerplate(s, p) == RemoveBoilerplateFrom(s, Lower(s), p, 1)

\* '^>' with re.MULTILINE matches at i
QuotedAt(s, i) == Ch(s, i) = ">" /\ (i = 1 \/ Ch(s, i - 1) = "\n")

\* re.sub(r'^>.*$', '', text, flags=re.MULTILINE)
RECURSIVE RemoveQuotedFrom(_, _)
RemoveQuotedFrom(s, i) ==
    LET m == FirstFrom(i, Len(s), [j \in 1..Len(s) |-> QuotedAt(s, j)])
    IN  IF m > Len(s) THEN SubSeq(s, i, Len(s))
        ELSE SubSeq(s, i, m - 1) \o RemoveQuotedFrom(s, LineEnd(s, m))

RemoveQuoted(s) == RemoveQuotedFrom(s, 1)

\* where the " wrote:" of a match of 'On .* wrote:' that starts at i starts,
\* or 0 : '.*' is greedy and stays within the line
WroteOf(s, i) ==
    IF ~StartsWithAt(s, i, "On ") THEN 0
    ELSE LastIn(i + 3, LineEnd(s, i + 3) - Len(" wrote:"),
                [j \in 1..Len(s) |-> StartsWithAt(s, j, " wrote:")])

\* re.sub(r'On .* wrote:', '', text) : case-sensitive
RECURSIVE RemoveAttributionFrom(_, _)
RemoveAttributionFrom(s, i) ==
    LET m == FirstFrom(i, Len(s), [j \in 1..Len(s) |-> WroteOf(s, j) > 0])
    IN  IF m > Len(s) THEN SubSeq(s, i, Len(s))
        ELSE SubSeq(s, i, m - 1)
             \o RemoveAttributionFrom(s, WroteOf(s, m) + Len(" wrote:"))

RemoveAttribution(s) == RemoveAttributionFrom(s, 1)

\* where \S+ of http[s]?://\S+ starts for a match that starts at i, or 0
UrlBodyStart(s, i) ==
    LET k == IF ~StartsWithAt(s, i, "http") THEN 0
             ELSE IF StartsWithAt(s, i + 4, "s://") THEN i + 8
             ELSE IF StartsWithAt(s, i + 4, "://") THEN i + 7
             ELSE 0
    IN  IF k > 0 /\ k <= Len(s) /\ ~IsSpace(Ch(s, k)) THEN k ELSE 0

\* re.sub(r'http[s]?://\S+', '', text)
RECURSIVE RemoveUrlsFrom(_, _)
RemoveUrlsFrom(s, i) ==
    LET m == FirstFrom(i, Len(s), [j \in 1..Len(s) |-> UrlBodyStart(s, j) > 0])
    IN  IF m > Len(s) THEN SubSeq(s, i, Len(s))
        ELSE SubSeq(s, i, m - 1)
             \o RemoveUrlsFrom(s, SkipNonSpace(s, UrlBodyStart(s, m)))

RemoveUrls(s) == RemoveUrlsFrom(s, 1)

\* re.sub(r'\s+', ' ', text) : the first character of a whitespace run
\* becomes a space, the others go
CollapseSpace(s) ==
    Glue([i \in 1..Len(s) |->
            IF ~IsSpace(Ch(s, i)) THEN Ch(s, i)
            ELSE IF i > 1 /\ IsSpace(Ch(s, i - 1)) THEN ""
            ELSE " "])

CleanText(s) ==
    LET t1 == RemoveSignature(s)
        t2 == RemoveBoilerplate(t1, "sent from my")
        t3 == RemoveBoilerplate(t2, "get outlook for")
        t4 == RemoveQuoted(t3)
        t5 == RemoveAttribution(t4)
        t6 == RemoveUrls(t5)
    IN  Strip(CollapseSpace(t6))

(***************************************************************************)
(* Summarizer._split_sentences                                             *)
(***************************************************************************)
IsTerminal(c) == c \in {".", "!", "?"}

\* a match of '(?<=[.!?])\s+' starts at i
SplitAt(s, i) == IsSpace(Ch(s, i)) /\ i > 1 /\ IsTerminal(Ch(s, i - 1))

\* where the matches of '(?<=[.!?])\s+' start, in order
SplitPoints(s) == SelectSeq([i \in 1..Len(s) |-> i], LAMBDA i : SplitAt(s, i))

\* re.split(r'(?<=[.!?])\s+', text) : the pieces between the matches; a
\* match is a whole whitespace run
SplitPieces(s) ==
    LET cuts == SplitPoints(s)
    IN  [k \in 1..(Len(cuts) + 1) |->
            SubSeq(s,
                   IF k = 1 THEN 1 ELSE SkipSpace(s, cuts[k - 1]),
                   IF k > Len(cuts) THEN Len(s) ELSE cuts[k] - 1)]

MinSentenceLen == 20

\* KeepLong with the threshold itself kept (>= 20)
KeepLongInclusive(pieces) ==
    LET kept == SelectSeq(pieces, LAMBDA q : Len(Strip(q)) >= MinSentenceLen)
    IN  [k \in 1..Len(kept) |-> Strip(kept[k])]

\* [s.strip() for s in sentences if len(s.strip()) > 20]
KeepLong(pieces) ==
    LET kept == SelectSeq(pieces, LAMBDA q : Len(Strip(q)) > MinSentenceLen)
    IN  [k \in 1..Len(kept) |-> Strip(kept[k])]

SplitSentences(s) == KeepLong(SplitPieces(s))

(***************************************************************************)
(* Word extraction and Summarizer._get_word_frequencies                    *)
(***************************************************************************)
STOP_WORDS ==
    {"the", "a", "an", "and", "or", "but", "in", "on", "at", "to", "for",
     "of", "with", "by", "from", "as", "is", "was", "are", "were", "been",
     "be", "have", "has", "had", "do", "does", "did", "will", "would",
     "could", "should", "may", "might", "must", "shall", "can", "need",
     "it", "its", "this", "that", "these", "those", "i", "you", "he",
     "she", "we", "they", "what", "which", "who", "whom", "when", "where",
     "why", "how", "all", "each", "every", "both", "few", "more", "most",
     "other", "some", "such", "no", "not", "only", "own", "same", "so",
     "than", "too", "very", "just", "also", "now", "here", "there", "then",
     "if", "else", "about", "into", "through", "during", "before", "after",
     "above", "below", "between", "under", "again", "further", "once",
     "hi", "hello", "dear", "regards", "thanks", "thank", "sincerely",
     "best", "cheers", "sent", "subject", "re", "fwd", "fw"}

\* where the run of \w characters that starts at i ends (one past it)
WordRunEnd(s, i) == FirstFrom(i, Len(s), [j \in 1..Len(s) |-> ~IsWordChar(Ch(s, j))])

\* where the run of letters that starts at i ends (one past it)
AlphaRunEnd(s, i) == FirstFrom(i, Len(s), [j \in 1..Len(s) |-> ~IsAlpha(Ch(s, j))])

MinWordLen == 3

\* WordAt for the pattern without its closing \b : the letters at the start
\* of a run of \w characters match even when a digit or an underscore follows
WordAtNoClosingBoundary(s, i) ==
    /\ IsWordChar(Ch(s, i))
    /\ i = 1 \/ ~IsWordChar(Ch(s, i - 1))
    /\ AlphaRunEnd(s, i) - i >= MinWordLen

\* '\b[a-zA-Z]{3,}\b' matches at i : the opening \b holds where a run of \w
\* characters starts; the letters that follow are taken greedily and the
\* closing \b needs the run to end with them.  Inside a run no \b holds, so
\* a run that fails yields no match at all.
WordAt(s, i) ==
    /\ IsWordChar(Ch(s, i))
    /\ i = 1 \/ ~IsWordChar(Ch(s, i - 1))
    /\ AlphaRunEnd(s, i) = WordRunEnd(s, i)
    /\ AlphaRunEnd(s, i) - i >= MinWordLen

\* re.findall(r'\b[a-zA-Z]{3,}\b', s)
FindWords(s) ==
    LET starts == SelectSeq([i \in 1..Len(s) |-> i], LAMBDA i : WordAt(s, i))
    IN  [k \in 1..Len(starts) |-> SubSeq(s, starts[k], AlphaRunEnd(s, starts[k]) - 1)]

\* DropStopWords without the filter
DropStopWordsNone(ws) == ws

\* [w for w in words if w not in self.STOP_WORDS]
DropStopWords(ws) == SelectSeq(ws, LAMBDA w : w \notin STOP_WORDS)

\* the qualifying words of s, in order, with repetitions
QualifyingWords(s) == DropStopWords(FindWords(Lower(s)))

\* Counter(ws) : a function from the words that occur to their counts
CounterOf(ws) ==
    [w \in {ws[i] : i \in 1..Len(ws)} |-> Cardinality({i \in 1..Len(ws) : ws[i] = w})]

\* GetWordFrequencies without text.lower(): a word is counted as it is
\* written
GetWordFrequenciesAsWritten(s) == CounterOf(DropStopWords(FindWords(s)))

\* Counter(filtered_words) of the words of text.lower()
GetWordFrequencies(s) == CounterOf(QualifyingWords(s))

\* word_freq.get(w, 0)
FreqGet(freq, w) == IF w \in DOMAIN freq THEN freq[w] ELSE 0

(***************************************************************************)
(* Scores.  The source computes in binary floating point; the model keeps  *)
(* every score as an exact fraction <<numerator, denominator>> in lowest   *)
(* terms, so 0.5, 0.3 and 0.2 are 5/10, 3/10 and 2/10.                     *)
(***************************************************************************)
RECURSIVE Gcd(_, _)
Gcd(a, b) == IF b = 0 THEN a ELSE Gcd(b, a % b)

\* n/d in lowest terms; a denominator 0 (a division by zero) is kept
Frac(n, d) ==
    IF d = 0 THEN <<0, 0>>
    ELSE LET g == Gcd(n, d) IN IF g = 0 THEN <<0, 1>> ELSE <<n \div g, d \div g>>

RAdd(a, b) == Frac(a[1] * b[2] + b[1] * a[2], a[2] * b[2])
RMul(a, b) == Frac(a[1] * b[1], a[2] * b[2])
REq(a, b) == a[1] * b[2] = b[1] * a[2]
RLess(a, b) == a[1] * b[2] < b[1] * a[2]
RLeq(a, b) == a[1] * b[2] <= b[1] * a[2]

RECURSIVE SumFreq(_, _)
SumFreq(ws, freq) ==
    IF ws = <<>> THEN 0 ELSE FreqGet(freq, Head(ws)) + SumFreq(Tail(ws), freq)

\* FreqScore over set(words): a word repeated in the sentence counts once
FreqScoreDistinct(ws, freq) ==
    LET distinct == {ws[i] : i \in 1..Len(ws)}
        firsts == SelectSeq([i \in 1..Len(ws) |-> i],
                            LAMBDA i : \A j \in 1..(i - 1) : ws[j] # ws[i])
    IN  Frac(SumFreq([k \in 1..Len(firsts) |-> ws[firsts[k]]], freq), Cardinality(distinct))

\* sum(word_freq.get(w, 0) for w in words) / len(words)
FreqScore(ws, freq) == Frac(SumFreq(ws, freq), Len(ws))

\* PositionScore with the last-sentence test made first
PositionScoreLastFirst(position, total_sentences) ==
    IF position >= total_sentences - 1 THEN Frac(5, 10)
    ELSE IF position < 2 THEN Frac(10, 10)
    ELSE Frac(0, 10)

\* position_score
PositionScore(position, total_sentences) ==
    IF position < 2 THEN Frac(10, 10)
    ELSE IF position >= total_sentences - 1 THEN Frac(5, 10)
    ELSE Frac(0, 10)

\* LengthScore with the last branch upside down: word_count / 30
LengthScoreRising(word_count) ==
    IF 10 <= word_count /\ word_count <= 30 THEN Frac(10, 10)
    ELSE IF word_count < 10 THEN Frac(word_count, 10)
    ELSE Frac(word_count, 30)

\* length_score
LengthScore(word_count) ==
    IF 10 <= word_count /\ word_count <= 30 THEN Frac(10, 10)
    ELSE IF word_count < 10 THEN Frac(word_count, 10)
    ELSE Frac(30, word_count)

\* ScoreSentence without the early return for a sentence with no words
ScoreSentenceUnguarded(sentence, freq, position, total_sentences) ==
    LET words == QualifyingWords(sentence)
    IN  RAdd(RAdd(RMul(FreqScore(words, freq), Frac(5, 10)),
                  RMul(PositionScore(position, total_sentences), Frac(3, 10))),
             RMul(LengthScore(Len(words)), Frac(2, 10)))

\* ScoreSentence with the weights of frequency and position exchanged
ScoreSentenceSwapped(sentence, freq, position, total_sentences) ==
    LET words == QualifyingWords(sentence)
    IN  IF words = <<>> THEN Frac(0, 10)
        ELSE RAdd(RAdd(RMul(FreqScore(words, freq), Frac(3, 10)),
                       RMul(PositionScore(position, total_sentences), Frac(5, 10))),
                  RMul(LengthScore(Len(words)), Frac(2, 10)))

\* Summarizer._score_sentence
ScoreSentence(sentence, freq, position, total_sentences) ==
    LET words == QualifyingWords(sentence)
    IN  IF words = <<>> THEN Frac(0, 10)
        ELSE RAdd(RAdd(RMul(FreqScore(words, freq), Frac(5, 10)),
                       RMul(PositionScore(position, total_sentences), Frac(3, 10))),
                  RMul(LengthScore(Len(words)), Frac(2, 10)))

(***************************************************************************)
(* Selection.  A scored sentence is the tuple (i, sentence, score) of the  *)
(* source, i counted from 0; x[1], x[2], x[3] are the source's x[0], x[1], *)
(* x[2].                                                                   *)
(***************************************************************************)
\* ScoreAll with the positions counted from 1, as if a fragment dropped
\* before the first sentence had taken position 0
ScoreAllFromOne(sents, freq) ==
    [k \in 1..Len(sents) |->
        <<k - 1, sents[k], ScoreSentence(sents[k], freq, k, Len(sents) + 1)>>]

\* for i, sentence in enumerate(sentences): ... append((i, sentence, score))
ScoreAll(sents, freq) ==
    [k \in 1..Len(sents) |->
        <<k - 1, sents[k], ScoreSentence(sents[k], freq, k - 1, Len(sents))>>]

\* InsertByScore as an unstable sort would place x: before its equals
RECURSIVE InsertByScoreUnstable(_, _)
InsertByScoreUnstable(sorted, x) ==
    IF sorted = <<>> THEN <<x>>
    ELSE IF RLeq(Head(sorted)[3], x[3]) THEN <<x>> \o sorted
    ELSE <<Head(sorted)>> \o InsertByScoreUnstable(Tail(sorted), x)

\* x put into a sequence sorted by falling score, behind every element whose
\* score is not smaller: list.sort(reverse=True) is stable
RECURSIVE InsertByScore(_, _)
InsertByScore(sorted, x) ==
    IF sorted = <<>> THEN <<x>>
    ELSE IF RLess(Head(sorted)[3], x[3]) THEN <<x>> \o sorted
    ELSE <<Head(sorted)>> \o InsertByScore(Tail(sorted), x)

\* scored_sentences.sort(key=lambda x: x[2], reverse=True)
RECURSIVE SortByScore(_)
SortByScore(seq) ==
    IF seq = <<>> THEN <<>>
    ELSE InsertByScore(SortByScore(SubSeq(seq, 1, Len(seq) - 1)), seq[Len(seq)])

RECURSIVE InsertByIndex(_, _)
InsertByIndex(sorted, x) ==
    IF sorted = <<>> THEN <<x>>
    ELSE IF x[1] < Head(sorted)[1] THEN <<x>> \o sorted
    ELSE <<Head(sorted)>> \o InsertByIndex(Tail(sorted), x)

\* SortByIndex left out: the selection stays in score order
SortByIndexOmitted(seq) == seq

\* top_sentences.sort(key=lambda x: x[0])
RECURSIVE SortByIndex(_)
SortByIndex(seq) ==
    IF seq = <<>> THEN <<>>
    ELSE InsertByIndex(SortByIndex(SubSeq(seq, 1, Len(seq) - 1)), seq[Len(seq)])

\* SliceTo taking one element too few
SliceToOneLess(seq, k) ==
    IF k >= 1 THEN SubSeq(seq, 1, IF k - 1 < Len(seq) THEN k - 1 ELSE Len(seq))
    ELSE SubSeq(seq, 1, Len(seq) + k - 1)

\* seq[:k] : a negative k counts from the end
SliceTo(seq, k) ==
    IF k >= 0 THEN SubSeq(seq, 1, IF k < Len(seq) THEN k ELSE Len(seq))
    ELSE SubSeq(seq, 1, Len(seq) + k)

\* Join with the empty separator
RECURSIVE JoinNoSeparator(_)
JoinNoSeparator(strs) ==
    IF strs = <<>> THEN ""
    ELSE strs[1] \o JoinNoSeparator(Tail(strs))

\* " ".join(strs)
RECURSIVE Join(_)
Join(strs) ==
    IF strs = <<>> THEN ""
    ELSE IF Len(strs) = 1 THEN strs[1]
    ELSE strs[1] \o " " \o Join(Tail(strs))

\* " ".join(s[1] for s in top_sentences)
JoinSentences(top) == Join([k \in 1..Len(top) |-> top[k][2]])

(***************************************************************************)
(* Inputs.  A text is the concatenation of at most MaxParts pieces; the    *)
(* pieces are chosen so that every branch of summarize is taken and the    *)
(* thresholds 20, 50 and 200 are met from both sides.                      *)
(***************************************************************************)
MaxParts == 3

RECURSIVE Repeat(_, _)
Repeat(s, n) == IF n = 0 THEN "" ELSE s \o Repeat(s, n - 1)

Pieces ==
    << " \n",
       "Hi there. ",
       "Yes, sure, we agree. ",
       Repeat("Fine, ok. ", 18),
       "Please confirm today. ",
       "It was what it was, so be it. ",
       "The budget report is due Friday! Send the budget report to finance? ",
       "> see https://example.com/old for the earlier reply\n" >>

RECURSIVE Concat(_)
Concat(ix) ==
    IF ix = <<>> THEN "" ELSE Pieces[Head(ix)] \o Concat(Tail(ix))

Texts == {Concat(ix) : ix \in UNION {[1..n -> 1..Len(Pieces)] : n \in 0..MaxParts}}

\* the singleton of the source is Summarizer(max_sentences=3); the
\* constructor takes any integer: a negative one, zero and one are tried too
DefaultMaxSentences == 3
MaxSentencesArgs == {-1, 0, 1, DefaultMaxSentences}

(***************************************************************************)
(* The parts of the state that a specification does not use keep the       *)
(* values they have here.                                                  *)
(***************************************************************************)
\* the threads that call summarize_email
Threads == {"t1", "t2"}

\* the local variables of a thread that is in no call
NoFrame ==
    [pc |-> "idle", text |-> "", cleaned_text |-> "", sentences |-> <<>>,
     word_freq |-> <<>>, scored_sentences |-> <<>>, top_sentences |-> <<>>,
     result |-> ""]

\* summarizer = Summarizer(max_sentences=3); STOP_WORDS is the attribute of
\* its class
NoCalls ==
    /\ summarizer = [max_sentences |-> DefaultMaxSentences, STOP_WORDS |-> STOP_WORDS]
    /\ frame = [t \in Threads |-> NoFrame]
    /\ returned = {}

NoEmail ==
    /\ email_data = [subject |-> "", body |-> ""]
    /\ api_key = "None"
    /\ ai_pc = "idle"
    /\ ai_result = [summary |-> ""]
    /\ summaries = <<>>

\* no call of storage.py or of a route yet, the storage file absent or empty
NoCall == [op |-> "none"]

NoRequest == [limit |-> 0, page_token |-> "None"]

NoResponse == [total |-> 0, data |-> <<>>, next_page_token |-> "None"]

\* an empty storage file, no call made, no request to the Gmail route
NoMail ==
    /\ stored = <<>>
    /\ last_call = NoCall
    /\ request = NoRequest
    /\ new_summaries = <<>>
    /\ current_page_token = "None"
    /\ pages_scanned = 0
    /\ gmail_pc = "idle"
    /\ response = NoResponse

NoSummarize ==
    /\ text = ""
    /\ max_sentences = DefaultMaxSentences
    /\ pc = "start"
    /\ cleaned_text = ""
    /\ sentences = <<>>
    /\ word_freq = <<>>
    /\ scored_sentences = <<>>
    /\ top_sentences = <<>>
    /\ result = ""

(***************************************************************************)
(* Summarizer.summarize, one action per step of its body.                  *)
(***************************************************************************)
MinCleanedLen == 50
FallbackLen == 200

\* pc is the place in the body of summarize: "start", the places between
\* its steps, the return statement that ended the call, or "raised" when an
\* exception left it
ReturnSites ==
    {"return_no_content", "return_short", "return_truncated", "return_all",
     "return_summary"}

Returned == pc \in ReturnSites

Init ==
    /\ text \in Texts
    /\ max_sentences \in MaxSentencesArgs
    /\ pc = "start"
    /\ cleaned_text = ""
    /\ sentences = <<>>
    /\ word_freq = <<>>
    /\ scored_sentences = <<>>
    /\ top_sentences = <<>>
    /\ result = ""
    /\ NoCalls
    /\ NoMail
    /\ NoEmail

\* if not text or not text.strip(): return "No content to summarize."
ReturnNoContent ==
    /\ pc = "start"
    /\ text = "" \/ Strip(text) = ""
    /\ result' = "No content to summarize."
    /\ pc' = "return_no_content"
    /\ UNCHANGED <<text, max_sentences, cleaned_text, sentences, word_freq,
                   scored_sentences, top_sentences>>
    /\ UNCHANGED <<callVars, aiVars, mailVars>>

\* cleaned_text = self._clean_text(text)
Clean ==
    /\ pc = "start"
    /\ ~(text = "" \/ Strip(text) = "")
    /\ cleaned_text' = CleanText(text)
    /\ pc' = "cleaned"
    /\ UNCHANGED <<text, max_sentences, sentences, word_freq,
                   scored_sentences, top_sentences, result>>
    /\ UNCHANGED <<callVars, aiVars, mailVars>>

\* ReturnShort returning the fixed message for every short cleaned text
ReturnShortMessage ==
    /\ pc = "cleaned"
    /\ Len(cleaned_text) < MinCleanedLen
    /\ result' = "No meaningful content found."
    /\ pc' = "return_short"
    /\ UNCHANGED <<text, max_sentences, cleaned_text, sentences, word_freq,
                   scored_sentences, top_sentences>>
    /\ UNCHANGED <<callVars, aiVars, mailVars>>

\* ReturnShort with the threshold itself included (<= 50)
ReturnShortInclusive ==
    /\ pc = "cleaned"
    /\ Len(cleaned_text) <= MinCleanedLen
    /\ result' = IF cleaned_text # "" THEN cleaned_text
                 ELSE "No meaningful content found."
    /\ pc' = "return_short"
    /\ UNCHANGED <<text, max_sentences, cleaned_text, sentences, word_freq,
                   scored_sentences, top_sentences>>
    /\ UNCHANGED <<callVars, aiVars, mailVars>>

\* if len(cleaned_text) < 50: return cleaned_text if cleaned_text else ...
ReturnShort ==
    /\ pc = "cleaned"
    /\ Len(cleaned_text) < MinCleanedLen
    /\ result' = IF cleaned_text # "" THEN cleaned_text
                 ELSE "No meaningful content found."
    /\ pc' = "return_short"
    /\ UNCHANGED <<text, max_sentences, cleaned_text, sentences, word_freq,
                   scored_sentences, top_sentences>>
    /\ UNCHANGED <<callVars, aiVars, mailVars>>

\* sentences = self._split_sentences(cleaned_text)
Split ==
    /\ pc = "cleaned"
    /\ ~(Len(cleaned_text) < MinCleanedLen)
    /\ sentences' = SplitSentences(cleaned_text)
    /\ pc' = "split"
    /\ UNCHANGED <<text, max_sentences, cleaned_text, word_freq,
                   scored_sentences, top_sentences, result>>
    /\ UNCHANGED <<callVars, aiVars, mailVars>>

\* ReturnTruncated cutting a text of exactly 200 characters too (>= 200)
ReturnTruncatedInclusive ==
    /\ pc = "split"
    /\ sentences = <<>>
    /\ result' = IF Len(cleaned_text) >= FallbackLen
                 THEN SubSeq(cleaned_text, 1, FallbackLen) \o "..."
                 ELSE cleaned_text
    /\ pc' = "return_truncated"
    /\ UNCHANGED <<text, max_sentences, cleaned_text, sentences, word_freq,
                   scored_sentences, top_sentences>>
    /\ UNCHANGED <<callVars, aiVars, mailVars>>

\* if not sentences: return cleaned_text[:200] + "..." if len(...) > 200 else cleaned_text
ReturnTruncated ==
    /\ pc = "split"
    /\ sentences = <<>>
    /\ result' = IF Len(cleaned_text) > FallbackLen
                 THEN SubSeq(cleaned_text, 1, FallbackLen) \o "..."
                 ELSE cleaned_text
    /\ pc' = "return_truncated"
    /\ UNCHANGED <<text, max_sentences, cleaned_text, sentences, word_freq,
                   scored_sentences, top_sentences>>
    /\ UNCHANGED <<callVars, aiVars, mailVars>>

\* ReturnAll returning the cleaned text instead of the joined sentences
ReturnAllWhole ==
    /\ pc = "split"
    /\ sentences # <<>>
    /\ Len(sentences) <= max_sentences
    /\ result' = cleaned_text
    /\ pc' = "return_all"
    /\ UNCHANGED <<text, max_sentences, cleaned_text, sentences, word_freq,
                   scored_sentences, top_sentences>>
    /\ UNCHANGED <<callVars, aiVars, mailVars>>

\* if len(sentences) <= self.max_sentences: return " ".join(sentences)
ReturnAll ==
    /\ pc = "split"
    /\ sentences # <<>>
    /\ Len(sentences) <= max_sentences
    /\ result' = Join(sentences)
    /\ pc' = "return_all"
    /\ UNCHANGED <<text, max_sentences, cleaned_text, sentences, word_freq,
                   scored_sentences, top_sentences>>
    /\ UNCHANGED <<callVars, aiVars, mailVars>>

\* word_freq = self._get_word_frequencies(cleaned_text)
BuildFrequencies ==
    /\ pc = "split"
    /\ sentences # <<>>
    /\ ~(Len(sentences) <= max_sentences)
    /\ word_freq' = GetWordFrequencies(cleaned_text)
    /\ pc' = "counted"
    /\ UNCHANGED <<text, max_sentences, cleaned_text, sentences,
                   scored_sentences, top_sentences, result>>
    /\ UNCHANGED <<callVars, aiVars, mailVars>>

\* the loop that fills scored_sentences; a score with denominator 0 is a
\* division by zero, which Python raises as ZeroDivisionError
ScoreSentences ==
    /\ pc = "counted"
    /\ LET scored == ScoreAll(sentences, word_freq)
       IN  IF \E k \in 1..Len(scored) : scored[k][3][2] = 0
           THEN /\ pc' = "raised"
                /\ UNCHANGED scored_sentences
           ELSE /\ pc' = "scored"
                /\ scored_sentences' = scored
    /\ UNCHANGED <<text, max_sentences, cleaned_text, sentences, word_freq,
                   top_sentences, result>>
    /\ UNCHANGED <<callVars, aiVars, mailVars>>

\* scored_sentences.sort(key=lambda x: x[2], reverse=True)
\* top_sentences = scored_sentences[:self.max_sentences]
SelectTop ==
    /\ pc = "scored"
    /\ scored_sentences' = SortByScore(scored_sentences)
    /\ top_sentences' = SliceTo(scored_sentences', max_sentences)
    /\ pc' = "selected"
    /\ UNCHANGED <<text, max_sentences, cleaned_text, sentences, word_freq, result>>
    /\ UNCHANGED <<callVars, aiVars, mailVars>>

\* top_sentences.sort(key=lambda x: x[0]); summary = " ".join(...); return summary
ReturnSummary ==
    /\ pc = "selected"
    /\ top_sentences' = SortByIndex(top_sentences)
    /\ result' = JoinSentences(top_sentences')
    /\ pc' = "return_summary"
    /\ UNCHANGED <<text, max_sentences, cleaned_text, sentences, word_freq,
                   scored_sentences>>
    /\ UNCHANGED <<callVars, aiVars, mailVars>>

Next ==
    \/ ReturnNoContent
    \/ Clean
    \/ ReturnShort
    \/ Split
    \/ ReturnTruncated
    \/ ReturnAll
    \/ BuildFrequencies
    \/ ScoreSentences
    \/ SelectTop
    \/ ReturnSummary

Spec == Init /\ [][Next]_vars

(***************************************************************************)
(* A second family of inputs, for the scoring: sentences with 9, 10, 30    *)
(* and 31 qualifying words, a word repeated within one sentence, stop      *)
(* words in capitals, letter runs next to digits and underscores,          *)
(* fragments of exactly 20 and 21 characters, and three sentences between *)
(* a salutation and a closing that are too short to be sentences.          *)
(***************************************************************************)
MaxScoreParts == 2

ScorePieces ==
    << "Hi abc123. ",
       "Yes, sure, we agree. Please confirm today. ",
       Repeat("Fine, ok. ", 6),
       "Ticket abc123 covers the new_budget plan for 2024Q1. ",
       "The budget review covers budget lines and The Budget totals! ",
       Repeat("add bug cut ", 2) \o "add bug cut. " \o Repeat("add bug cut ", 3) \o "end! ",
       Repeat("add bug cut ", 9) \o "add bug end. " \o Repeat("add bug cut ", 10) \o "end? ",
       "Hi all. Plans change on Monday morning. Budget talks follow on Tuesday noon. "
           \o "Notes arrive later this week. Bye now. " >>

RECURSIVE ScoreConcat(_)
ScoreConcat(ix) ==
    IF ix = <<>> THEN "" ELSE ScorePieces[Head(ix)] \o ScoreConcat(Tail(ix))

ScoreTexts ==
    {ScoreConcat(ix) : ix \in UNION {[1..n -> 1..Len(ScorePieces)] : n \in 0..MaxScoreParts}}

\* Summarizer(max_sentences=1) and the singleton's Summarizer(max_sentences=3)
ScoreMaxSentencesArgs == {1, DefaultMaxSentences}

InitScore ==
    /\ text \in ScoreTexts
    /\ max_sentences \in ScoreMaxSentencesArgs
    /\ pc = "start"
    /\ cleaned_text = ""
    /\ sentences = <<>>
    /\ word_freq = <<>>
    /\ scored_sentences = <<>>
    /\ top_sentences = <<>>
    /\ result = ""
    /\ NoCalls
    /\ NoMail
    /\ NoEmail

SpecScore == InitScore /\ [][Next]_vars

(***************************************************************************)
(* A third family of inputs, for _clean_text: the signature delimiter on   *)
(* a line of its own, with a trailing space, at the end of a line of text  *)
(* and as the last line without a line feed; the client boilerplate as a   *)
(* line of its own with lines after it and inside a line, in capitals; an  *)
(* attribution on one line and wrapped over two; a quoted line and an      *)
(* indented one; a URL.                                                    *)
(***************************************************************************)
MaxCleanParts == 2

\* the body of the scenario "signature stripping" and what follows it there
MeetingBody ==
    "Meeting at 3pm tomorrow in room 204. Please confirm attendance by end of day."

SignatureScenario == MeetingBody \o "\n--\nJohn Doe\nSent from my iPhone"

CleanPieces ==
    << MeetingBody \o "\n",
       "--\nJohn Doe\nSent from my iPhone",
       "--",
       "Sent from my iPhone\nThe new office opens on Monday morning.\n",
       "Get the report. GET OUTLOOK FOR Android today\n",
       "On Mon, Jan 1, 2024 John Doe\n<john@example.com> wrote:\n> Are we still on for Friday?\n",
       "On Monday John wrote: see https://example.com/agenda?id=7 for the agenda.\n",
       "Thanks for the update -- \nJane\n",
       " > Are we on?\n",
       Repeat("Fine, ok. ", 3) >>

\* the pieces of the family pieces with the indices ix, one after the other
RECURSIVE ConcatOf(_, _)
ConcatOf(pieces, ix) ==
    IF ix = <<>> THEN "" ELSE pieces[Head(ix)] \o ConcatOf(pieces, Tail(ix))

CleanTexts ==
    {ConcatOf(CleanPieces, ix) : ix \in UNION {[1..n -> 1..Len(CleanPieces)] : n \in 0..MaxCleanParts}}

InitClean ==
    /\ text \in CleanTexts
    /\ max_sentences \in ScoreMaxSentencesArgs
    /\ pc = "start"
    /\ cleaned_text = ""
    /\ sentences = <<>>
    /\ word_freq = <<>>
    /\ scored_sentences = <<>>
    /\ top_sentences = <<>>
    /\ result = ""
    /\ NoCalls
    /\ NoMail
    /\ NoEmail

SpecClean == InitClean /\ [][Next]_vars

(***************************************************************************)
(* A fourth family of inputs, for the ranking: sentences that consist of   *)
(* stop words and short words only, before, between and after sentences    *)
(* with qualifying words, one of them written with a capital.              *)
(***************************************************************************)
MaxRankParts == 3

RankPieces ==
    << "It was what it was, so be it. ",
       "The budget report is due Friday! Send the budget report to finance? ",
       "Those were the same as these, or so. ",
       "Hi there. ",
       Repeat("Fine, ok. ", 6) >>

RankTexts ==
    {ConcatOf(RankPieces, ix) : ix \in UNION {[1..n -> 1..Len(RankPieces)] : n \in 0..MaxRankParts}}

InitRank ==
    /\ text \in RankTexts
    /\ max_sentences \in ScoreMaxSentencesArgs
    /\ pc = "start"
    /\ cleaned_text = ""
    /\ sentences = <<>>
    /\ word_freq = <<>>
    /\ scored_sentences = <<>>
    /\ top_sentences = <<>>
    /\ result = ""
    /\ NoCalls
    /\ NoMail
    /\ NoEmail

SpecRank == InitRank /\ [][Next]_vars

(***************************************************************************)
(* summarize_email and the whole of Summarizer.summarize as one function   *)
(* of the text and of the max_sentences of the instance.                   *)
(***************************************************************************)
Summarize(t, k) ==
    IF t = "" \/ Strip(t) = "" THEN "No content to summarize."
    ELSE LET c == CleanText(t)
         IN  IF Len(c) < MinCleanedLen
             THEN (IF c # "" THEN c ELSE "No meaningful content found.")
             ELSE LET ss == SplitSentences(c)
                  IN  IF ss = <<>>
                      THEN (IF Len(c) > FallbackLen
                            THEN SubSeq(c, 1, FallbackLen) \o "..."
                            ELSE c)
                      ELSE IF Len(ss) <= k THEN Join(ss)
                      ELSE JoinSentences(
                               SortByIndex(
                                   SliceTo(SortByScore(ScoreAll(ss, GetWordFrequencies(c))),
                                           k)))

\* summarize_email(text) : the call on the module's singleton
SummarizeEmail(t) == Summarize(t, DefaultMaxSentences)

(***************************************************************************)
(* _process_emails_with_ai on one email that storage does not hold yet,    *)
(* with summarize_and_classify_email and _fallback_classification of       *)
(* gemini_service.py.  Of the classification only the key "summary" is     *)
(* modelled; the other keys do not enter it.                               *)
(***************************************************************************)
\* get_gemini_api_key() returns None when there is no readable config file
None == "None"

ApiKeys == {None, "", "AIza-key"}

\* body[:1000], subject[:1000], result.get("summary", subject)[:1000]
SummaryLimit == 1000

\* s[:n]
Take(s, n) == SubSeq(s, 1, IF n < Len(s) THEN n ELSE Len(s))

Subjects == {"", "Budget review", "URGENT: sign today"}

Bodies ==
    {"",
     "Hi there.",
     "Please confirm the budget today.\n-- \nJohn",
     Repeat("Fine, ok. ", 100),
     Repeat("Fine, ok. ", 100) \o "!"}

Emails == [subject : Subjects, body : Bodies]

\* what json.loads can give for a response that the lines 145-152 accept: a
\* dict with the key "summary", or a dict without it
Responses == {[summary |-> "Budget review moved to Friday."], <<>>}

\* _get_gemini_model() : None unless a non-empty key is stored
HasModel == api_key # None /\ api_key # ""

\* the "summary" of _fallback_classification(subject, sender, body)
FallbackSummary(subject, body) ==
    IF body # ""
    THEN Take(body, SummaryLimit) \o (IF Len(body) > SummaryLimit THEN "..." ELSE "")
    ELSE Take(subject, SummaryLimit)

InitAi ==
    /\ email_data \in Emails
    /\ api_key \in ApiKeys
    /\ ai_pc = "start"
    /\ ai_result = [summary |-> ""]
    /\ summaries = <<>>
    /\ NoSummarize
    /\ NoCalls
    /\ NoMail

\* model = _get_gemini_model(); if not model: return _fallback_classification(...)
NotConfigured ==
    /\ ai_pc = "start"
    /\ ~HasModel
    /\ ai_result' = [summary |-> FallbackSummary(email_data.subject, email_data.body)]
    /\ ai_pc' = "returned_no_model"
    /\ UNCHANGED <<email_data, api_key, summaries>>
    /\ UNCHANGED <<summarizeVars, callVars, mailVars>>

\* the model exists: the prompt is built and the try block is entered
Configured ==
    /\ ai_pc = "start"
    /\ HasModel
    /\ ai_pc' = "configured"
    /\ UNCHANGED <<email_data, api_key, ai_result, summaries>>
    /\ UNCHANGED <<summarizeVars, callVars, mailVars>>

\* generate_content, json.loads or the normalisation raises:
\* except Exception: return _fallback_classification(subject, sender, body)
GenerateFails ==
    /\ ai_pc = "configured"
    /\ ai_result' = [summary |-> FallbackSummary(email_data.subject, email_data.body)]
    /\ ai_pc' = "returned_error"
    /\ UNCHANGED <<email_data, api_key, summaries>>
    /\ UNCHANGED <<summarizeVars, callVars, mailVars>>

\* the response parses: "summary": result.get("summary", subject)[:1000]
GenerateSucceeds ==
    /\ ai_pc = "configured"
    /\ \E r \in Responses :
          ai_result' = [summary |->
                           Take(IF "summary" \in DOMAIN r THEN r.summary
                                ELSE email_data.subject,
                                SummaryLimit)]
    /\ ai_pc' = "returned_ai"
    /\ UNCHANGED <<email_data, api_key, summaries>>
    /\ UNCHANGED <<summarizeVars, callVars, mailVars>>

\* summary = EmailSummary(..., summary=ai_result['summary'], ...);
\* summaries.append(summary): the list that save_summaries_batch stores
AppendSummary ==
    /\ ai_pc \in {"returned_no_model", "returned_error", "returned_ai"}
    /\ summaries' = Append(summaries, ai_result.summary)
    /\ ai_pc' = CASE ai_pc = "returned_no_model" -> "appended_no_model"
                  [] ai_pc = "returned_error" -> "appended_error"
                  [] ai_pc = "returned_ai" -> "appended_ai"
    /\ UNCHANGED <<email_data, api_key, ai_result>>
    /\ UNCHANGED <<summarizeVars, callVars, mailVars>>

NextAi ==
    \/ NotConfigured
    \/ Configured
    \/ GenerateFails
    \/ GenerateSucceeds
    \/ AppendSummary

SpecAi == InitAi /\ [][NextAi]_vars

(***************************************************************************)
(* Calls of summarize_email from several threads on the one singleton of   *)
(* the module.  A step of a thread is one statement of summarize; the      *)
(* steps of the threads interleave freely, there is no lock in the source. *)
(* frame[t] holds the local variables of the call thread t is in; self is  *)
(* the variable summarizer, whose attributes the steps read where the      *)
(* source reads self.max_sentences and self.STOP_WORDS.                    *)
(***************************************************************************)
\* the calls started in one behaviour
MaxCalls == 3

TeamNotes ==
    "Alice drafted release notes yesterday. Bruno merged several pending patches. "
        \o "Budget figures remain unclear today. Carla booked rooms near central station."

BudgetNotes ==
    "Budget review starts Monday morning. Budget owners present budget changes. "
        \o "Finance signs budget totals Friday. Everyone reads budget minutes afterwards."

CallTexts ==
    {"", "Hi there.", Repeat("Fine, ok. ", 6),
     "Please confirm the budget today. Thanks for the quick review, John.",
     TeamNotes, BudgetNotes}

\* returned with one more entry: the text, the value returned for it, and
\* how many calls have returned for this text now
Record(txt, res) ==
    returned \cup {<<txt, res, 1 + Cardinality({r \in returned : r[1] = txt})>>}

\* the threads that are inside a call
InCall == {t \in Threads : frame[t].pc \notin {"idle", "raised"} \cup ReturnSites}

\* re.findall(...) on sentence.lower() filtered by self.STOP_WORDS
WordsWith(s, stop) == SelectSeq(FindWords(Lower(s)), LAMBDA w : w \notin stop)

\* Summarizer._score_sentence with self.STOP_WORDS read from the instance
ScoreWith(sentence, freq, position, total_sentences, stop) ==
    LET words == WordsWith(sentence, stop)
    IN  IF words = <<>> THEN Frac(0, 10)
        ELSE RAdd(RAdd(RMul(FreqScore(words, freq), Frac(5, 10)),
                       RMul(PositionScore(position, total_sentences), Frac(3, 10))),
                  RMul(LengthScore(Len(words)), Frac(2, 10)))

\* WordFreqOf if word_freq were one attribute of the singleton: the table
\* another thread has built is the one that is read
WordFreqOfAny(t) ==
    IF \E u \in Threads \ {t} : frame[u].word_freq # <<>>
    THEN frame[CHOOSE u \in Threads \ {t} : frame[u].word_freq # <<>>].word_freq
    ELSE frame[t].word_freq

\* the local variable word_freq that the scoring loop of thread t passes on
WordFreqOf(t) == frame[t].word_freq

InitCalls ==
    /\ NoCalls
    /\ NoMail
    /\ NoSummarize
    /\ NoEmail

\* summarize_email(txt) is called on thread t: a new frame
CallStart(t, txt) ==
    /\ frame[t].pc \in {"idle"} \cup ReturnSites
    /\ Cardinality(returned) + Cardinality(InCall) < MaxCalls
    /\ frame' = [frame EXCEPT ![t] = [NoFrame EXCEPT !.pc = "start", !.text = txt]]
    /\ UNCHANGED <<summarizer, returned>>
    /\ UNCHANGED <<summarizeVars, aiVars, mailVars>>

\* if not text or not text.strip(): return "No content to summarize."
CallReturnNoContent(t) ==
    /\ frame[t].pc = "start"
    /\ frame[t].text = "" \/ Strip(frame[t].text) = ""
    /\ frame' = [frame EXCEPT ![t].result = "No content to summarize.",
                              ![t].pc = "return_no_content"]
    /\ returned' = Record(frame[t].text, frame'[t].result)
    /\ UNCHANGED summarizer
    /\ UNCHANGED <<summarizeVars, aiVars, mailVars>>

\* cleaned_text = self._clean_text(text)
CallClean(t) ==
    /\ frame[t].pc = "start"
    /\ ~(frame[t].text = "" \/ Strip(frame[t].text) = "")
    /\ frame' = [frame EXCEPT ![t].cleaned_text = CleanText(frame[t].text),
                              ![t].pc = "cleaned"]
    /\ UNCHANGED <<summarizer, returned>>
    /\ UNCHANGED <<summarizeVars, aiVars, mailVars>>

\* if len(cleaned_text) < 50: return cleaned_text if cleaned_text else ...
CallReturnShort(t) ==
    /\ frame[t].pc = "cleaned"
    /\ Len(frame[t].cleaned_text) < MinCleanedLen
    /\ frame' = [frame EXCEPT
                    ![t].result = IF frame[t].cleaned_text # "" THEN frame[t].cleaned_text
                                  ELSE "No meaningful content found.",
                    ![t].pc = "return_short"]
    /\ returned' = Record(frame[t].text, frame'[t].result)
    /\ UNCHANGED summarizer
    /\ UNCHANGED <<summarizeVars, aiVars, mailVars>>

\* sentences = self._split_sentences(cleaned_text)
CallSplit(t) ==
    /\ frame[t].pc = "cleaned"
    /\ ~(Len(frame[t].cleaned_text) < MinCleanedLen)
    /\ frame' = [frame EXCEPT ![t].sentences = SplitSentences(frame[t].cleaned_text),
                              ![t].pc = "split"]
    /\ UNCHANGED <<summarizer, returned>>
    /\ UNCHANGED <<summarizeVars, aiVars, mailVars>>

\* if not sentences: return cleaned_text[:200] + "..." if len(...) > 200 else cleaned_text
CallReturnTruncated(t) ==
    /\ frame[t].pc = "split"
    /\ frame[t].sentences = <<>>
    /\ frame' = [frame EXCEPT
                    ![t].result = IF Len(frame[t].cleaned_text) > FallbackLen
                                  THEN SubSeq(frame[t].cleaned_text, 1, FallbackLen) \o "..."
                                  ELSE frame[t].cleaned_text,
                    ![t].pc = "return_truncated"]
    /\ returned' = Record(frame[t].text, frame'[t].result)
    /\ UNCHANGED summarizer
    /\ UNCHANGED <<summarizeVars, aiVars, mailVars>>

\* CallReturnAll lowering the limit of the instance to the sentences found:
\* self.max_sentences = len(sentences)
CallReturnAllClamping(t) ==
    /\ frame[t].pc = "split"
    /\ frame[t].sentences # <<>>
    /\ Len(frame[t].sentences) <= summarizer.max_sentences
    /\ frame' = [frame EXCEPT ![t].result = Join(frame[t].sentences),
                              ![t].pc = "return_all"]
    /\ returned' = Record(frame[t].text, frame'[t].result)
    /\ summarizer' = [summarizer EXCEPT !.max_sentences = Len(frame[t].sentences)]
    /\ UNCHANGED <<summarizeVars, aiVars, mailVars>>

\* if len(sentences) <= self.max_sentences: return " ".join(sentences)
CallReturnAll(t) ==
    /\ frame[t].pc = "split"
    /\ frame[t].sentences # <<>>
    /\ Len(frame[t].sentences) <= summarizer.max_sentences
    /\ frame' = [frame EXCEPT ![t].result = Join(frame[t].sentences),
                              ![t].pc = "return_all"]
    /\ returned' = Record(frame[t].text, frame'[t].result)
    /\ UNCHANGED summarizer
    /\ UNCHANGED <<summarizeVars, aiVars, mailVars>>

\* the words of the cleaned texts of the calls rs, one call after the other
RECURSIVE WordsOfCalls(_, _)
WordsOfCalls(rs, stop) ==
    IF rs = {} THEN <<>>
    ELSE LET r == CHOOSE x \in rs : TRUE
         IN  WordsWith(CleanText(r[1]), stop) \o WordsOfCalls(rs \ {r}, stop)

\* CallBuildFrequencies with one Counter kept on the instance and updated by
\* every call: the counts of the calls that have returned stay in it
CallBuildFrequenciesAccumulating(t) ==
    /\ frame[t].pc = "split"
    /\ frame[t].sentences # <<>>
    /\ ~(Len(frame[t].sentences) <= summarizer.max_sentences)
    /\ frame' = [frame EXCEPT
                    ![t].word_freq =
                        CounterOf(WordsOfCalls(returned, summarizer.STOP_WORDS)
                                  \o WordsWith(frame[t].cleaned_text, summarizer.STOP_WORDS)),
                    ![t].pc = "counted"]
    /\ UNCHANGED <<summarizer, returned>>
    /\ UNCHANGED <<summarizeVars, aiVars, mailVars>>

\* word_freq = self._get_word_frequencies(cleaned_text) : a new Counter
CallBuildFrequencies(t) ==
    /\ frame[t].pc = "split"
    /\ frame[t].sentences # <<>>
    /\ ~(Len(frame[t].sentences) <= summarizer.max_sentences)
    /\ frame' = [frame EXCEPT
                    ![t].word_freq =
                        CounterOf(WordsWith(frame[t].cleaned_text, summarizer.STOP_WORDS)),
                    ![t].pc = "counted"]
    /\ UNCHANGED <<summarizer, returned>>
    /\ UNCHANGED <<summarizeVars, aiVars, mailVars>>

\* the loop that fills scored_sentences
CallScoreSentences(t) ==
    /\ frame[t].pc = "counted"
    /\ LET sents == frame[t].sentences
           scored == [k \in 1..Len(sents) |->
                        <<k - 1, sents[k],
                          ScoreWith(sents[k], WordFreqOf(t), k - 1, Len(sents),
                                    summarizer.STOP_WORDS)>>]
       IN  IF \E k \in 1..Len(scored) : scored[k][3][2] = 0
           THEN frame' = [frame EXCEPT ![t].pc = "raised"]
           ELSE frame' = [frame EXCEPT ![t].scored_sentences = scored,
                                       ![t].pc = "scored"]
    /\ UNCHANGED <<summarizer, returned>>
    /\ UNCHANGED <<summarizeVars, aiVars, mailVars>>

\* scored_sentences.sort(key=lambda x: x[2], reverse=True)
\* top_sentences = scored_sentences[:self.max_sentences]
CallSelectTop(t) ==
    /\ frame[t].pc = "scored"
    /\ LET sorted == SortByScore(frame[t].scored_sentences)
       IN  frame' = [frame EXCEPT
                        ![t].scored_sentences = sorted,
                        ![t].top_sentences = SliceTo(sorted, summarizer.max_sentences),
                        ![t].pc = "selected"]
    /\ UNCHANGED <<summarizer, returned>>
    /\ UNCHANGED <<summarizeVars, aiVars, mailVars>>

\* top_sentences.sort(key=lambda x: x[0]); summary = " ".join(...); return summary
CallReturnSummary(t) ==
    /\ frame[t].pc = "selected"
    /\ LET top == SortByIndex(frame[t].top_sentences)
       IN  frame' = [frame EXCEPT ![t].top_sentences = top,
                                  ![t].result = JoinSentences(top),
                                  ![t].pc = "return_summary"]
    /\ returned' = Record(frame[t].text, frame'[t].result)
    /\ UNCHANGED summarizer
    /\ UNCHANGED <<summarizeVars, aiVars, mailVars>>

NextCalls ==
    \E t \in Threads :
        \/ \E txt \in CallTexts : CallStart(t, txt)
        \/ CallReturnNoContent(t)
        \/ CallClean(t)
        \/ CallReturnShort(t)
        \/ CallSplit(t)
        \/ CallReturnTruncated(t)
        \/ CallReturnAll(t)
        \/ CallBuildFrequencies(t)
        \/ CallScoreSentences(t)
        \/ CallSelectTop(t)
        \/ CallReturnSummary(t)

SpecCalls == InitCalls /\ [][NextCalls]_vars

(***************************************************************************)
(* storage.py : the storage file holds a list of records; every function   *)
(* loads the whole list, changes it and saves it whole.  A record is an    *)
(* EmailSummary, of which the id and the summary text are modelled.        *)
(***************************************************************************)
\* the summaries of one call of save_summaries_batch
MaxBatch == 2

SummaryIds == {"id1", "id2", "id3"}

SummaryTexts == {"Budget review moved to Friday.", "Invoice attached."}

EmailSummaries == [id : SummaryIds, summary : SummaryTexts]

Batches == UNION {[1..n -> EmailSummaries] : n \in 0..MaxBatch}

\* {s.get('id') for s in summaries}
IdsOf(list) == {list[k].id : k \in 1..Len(list)}

InitStorage ==
    /\ NoMail
    /\ NoSummarize
    /\ NoCalls
    /\ NoEmail

\* save_summary(summary): the record with the id of summary is replaced
\* where it stands, or summary is appended
SaveSummary(summary) ==
    /\ stored' = IF summary.id \in IdsOf(stored)
                 THEN [k \in 1..Len(stored) |->
                          IF stored[k].id # summary.id THEN stored[k] ELSE summary]
                 ELSE Append(stored, summary)
    /\ last_call' = [op |-> "save_summary", arg |-> summary, before |-> stored,
                     ret |-> TRUE]
    /\ UNCHANGED <<summarizeVars, callVars, aiVars, gmailVars>>

\* AppendNew without existing_ids.add(summary.id): only the ids the file
\* held count as existing
RECURSIVE AppendNewNoAdd(_, _, _)
AppendNewNoAdd(existing, existing_ids, list) ==
    IF list = <<>> THEN existing
    ELSE IF Head(list).id \notin existing_ids
         THEN AppendNewNoAdd(Append(existing, Head(list)), existing_ids, Tail(list))
         ELSE AppendNewNoAdd(existing, existing_ids, Tail(list))

\* the loop of save_summaries_batch: a summary whose id is not in
\* existing_ids is appended and its id added; the value is the list after
\* the loop
RECURSIVE AppendNew(_, _, _)
AppendNew(existing, existing_ids, list) ==
    IF list = <<>> THEN existing
    ELSE IF Head(list).id \notin existing_ids
         THEN AppendNew(Append(existing, Head(list)),
                        existing_ids \cup {Head(list).id}, Tail(list))
         ELSE AppendNew(existing, existing_ids, Tail(list))

\* save_summaries_batch(summaries_list): new_count is the number of appends
SaveSummariesBatch(summaries_list) ==
    /\ stored' = AppendNew(stored, IdsOf(stored), summaries_list)
    /\ last_call' = [op |-> "save_summaries_batch", arg |-> summaries_list,
                     before |-> stored, ret |-> Len(stored') - Len(stored)]
    /\ UNCHANGED <<summarizeVars, callVars, aiVars, gmailVars>>

\* delete_summary(summary_id): the list is saved only if it became shorter
DeleteSummary(summary_id) ==
    /\ LET kept == SelectSeq(stored, LAMBDA s : s.id # summary_id)
       IN  /\ stored' = IF Len(kept) < Len(stored) THEN kept ELSE stored
           /\ last_call' = [op |-> "delete_summary", arg |-> summary_id,
                            before |-> stored, ret |-> Len(kept) < Len(stored)]
    /\ UNCHANGED <<summarizeVars, callVars, aiVars, gmailVars>>

\* clear_all_summaries(): _save_summaries([])
ClearAllSummaries ==
    /\ stored' = <<>>
    /\ last_call' = [op |-> "clear_all_summaries", arg |-> <<>>, before |-> stored,
                     ret |-> TRUE]
    /\ UNCHANGED <<summarizeVars, callVars, aiVars, gmailVars>>

NextStorage ==
    \/ \E summary \in EmailSummaries : SaveSummary(summary)
    \/ \E summaries_list \in Batches : SaveSummariesBatch(summaries_list)
    \/ \E summary_id \in SummaryIds : DeleteSummary(summary_id)
    \/ ClearAllSummaries

SpecStorage == InitStorage /\ [][NextStorage]_vars

(***************************************************************************)
(* routes/emails.py : _process_emails_with_ai and the route POST           *)
(* /emails/fetch.  A handler is a coroutine that never awaits, so a        *)
(* request runs from its first statement to its response before another    *)
(* starts.  What the mail server returns and what the classification       *)
(* gives for an email are chosen freely.                                   *)
(***************************************************************************)
\* the emails of one fetch
MaxFetched == 2

\* three messages; the second has the subject, sender and date of the first
RawEmails ==
    {[subject |-> "Budget", sender |-> "ann@x.org", date |-> "Mon 09:00",
      body |-> "Please confirm the budget."],
     [subject |-> "Budget", sender |-> "ann@x.org", date |-> "Mon 09:00",
      body |-> "Reminder: please confirm."],
     [subject |-> "Invoice", sender |-> "bob@y.org", date |-> "Tue 10:30",
      body |-> "Invoice attached."]}

\* id_content = f"{subject}{sender}{date}"; the id is the first 12 digits of
\* its md5, taken here to differ whenever id_content differs
EmailId(raw_email) == raw_email.subject \o raw_email.sender \o raw_email.date

\* ToProcess without the test of check_email_exists
ToProcessAll(raw_emails, existing) == raw_emails

\* the emails that pass 'if storage.check_email_exists(email_id): continue';
\* existing is the stored list, which the loop does not change
ToProcess(raw_emails, existing) ==
    SelectSeq(raw_emails, LAMBDA e : EmailId(e) \notin IdsOf(existing))

\* what the try block of the loop gives for one email: an EmailSummary with
\* the summary text of summarize_and_classify_email, or an exception (a
\* result that EmailSummary does not validate), after which the loop
\* continues with the next email
AiOutcomes == SummaryTexts \cup {"raised"}

\* the list summaries at the end of _process_emails_with_ai, for the emails
\* calls that were passed to summarize_and_classify_email
Summarized(calls, outcomes) ==
    LET ok == SelectSeq([k \in 1..Len(calls) |-> k], LAMBDA k : outcomes[k] # "raised")
    IN  [j \in 1..Len(ok) |-> [id |-> EmailId(calls[ok[j]]), summary |-> outcomes[ok[j]]]]

\* fetch_imap_and_summarize for a request that finds IMAP configured and a
\* server that returns raw_emails
FetchImap(raw_emails) ==
    LET calls == ToProcess(raw_emails, stored)
        again == last_call.op = "fetch_imap" /\ last_call.arg = raw_emails
    IN  \E outcomes \in [1..Len(calls) -> AiOutcomes] :
            LET data == Summarized(calls, outcomes)
            IN  /\ stored' = IF raw_emails = <<>> THEN stored
                             ELSE AppendNew(stored, IdsOf(stored), data)
                /\ last_call' =
                      [op |-> "fetch_imap", arg |-> raw_emails, before |-> stored,
                       ai_calls |-> IF raw_emails = <<>> THEN <<>> ELSE calls,
                       ret |-> [total |-> Len(data), data |-> data],
                       raised |-> \E k \in 1..Len(calls) : outcomes[k] = "raised",
                       repeat |-> again,
                       prev_raised |-> again /\ last_call.raised,
                       prev_total |-> IF again THEN last_call.ret.total ELSE 0]
                /\ UNCHANGED <<summarizeVars, callVars, aiVars, gmailVars>>

NextImap ==
    \/ \E raw_emails \in UNION {[1..n -> RawEmails] : n \in 0..MaxFetched} :
          FetchImap(raw_emails)
    \/ \E raw_email \in RawEmails : DeleteSummary(EmailId(raw_email))
    \/ ClearAllSummaries

SpecImap == InitStorage /\ [][NextImap]_vars

(***************************************************************************)
(* routes/emails.py : the route POST /emails/gmail/fetch.  The handler is  *)
(* followed statement by statement through its while loop (gmail_pc);      *)
(* since it never awaits, no other request runs before it has responded.   *)
(* last_call records the last call of fetch_gmail_emails with the values   *)
(* the loop had when it made the call, and then the response.              *)
(***************************************************************************)
\* the largest limit of a request
MaxLimit == 2

\* max_pages = 10
max_pages == 10

\* GmailPages without maxResults
GmailPagesUnlimited(limit) == UNION {[1..n -> RawEmails] : n \in 0..(limit + 1)}

\* the lists of emails one call of fetch_gmail_emails(limit=limit, ...) can
\* return: messages().list(maxResults=limit)
GmailPages(limit) == UNION {[1..n -> RawEmails] : n \in 0..limit}

\* the summary text does not matter to the loop: one text, or an exception
GmailOutcomes == {"Invoice attached.", "raised"}

\* WhileCondition without the test of len(new_summaries)
WhileConditionPagesOnly == pages_scanned < max_pages

\* while len(new_summaries) < request.limit and pages_scanned < max_pages
WhileCondition == Len(new_summaries) < request.limit /\ pages_scanned < max_pages

\* a request arrives; its page_token is absent or the one of the response
\* before
GmailStart(limit, page_token) ==
    /\ gmail_pc = "idle"
    /\ request' = [limit |-> limit, page_token |-> page_token]
    /\ new_summaries' = <<>>
    /\ current_page_token' = page_token
    /\ pages_scanned' = 0
    /\ gmail_pc' = "while"
    /\ UNCHANGED <<response, storeVars, summarizeVars, callVars, aiVars>>

\* one pass of the loop body: fetch_gmail_emails returns raw_emails and
\* next_page_token
GmailFetchPage(raw_emails, next_page_token) ==
    /\ gmail_pc = "while"
    /\ WhileCondition
    /\ LET calls == ToProcess(raw_emails, stored)
       IN  \E outcomes \in [1..Len(calls) -> GmailOutcomes] :
              LET batch_summaries == Summarized(calls, outcomes)
              IN  /\ current_page_token' = next_page_token
                  /\ pages_scanned' = pages_scanned + 1
                  /\ last_call' = [op |-> "fetch_gmail_emails",
                                   empty |-> raw_emails = <<>>,
                                   next_page_token |-> next_page_token,
                                   collected |-> Len(new_summaries),
                                   scanned |-> pages_scanned]
                  /\ IF raw_emails = <<>>
                     THEN /\ gmail_pc' = "return"
                          /\ UNCHANGED <<stored, new_summaries>>
                     ELSE /\ stored' = AppendNew(stored, IdsOf(stored), batch_summaries)
                          /\ new_summaries' = new_summaries \o batch_summaries
                          /\ gmail_pc' = IF next_page_token = "None" THEN "return"
                                         ELSE "while"
    /\ UNCHANGED <<request, response, summarizeVars, callVars, aiVars>>

\* a statement of the loop body raises: the handler answers 500; what
\* earlier pages saved stays saved
GmailFetchRaises ==
    /\ gmail_pc = "while"
    /\ WhileCondition
    /\ response' = NoResponse
    /\ last_call' = [op |-> "fetch_gmail", status |-> 500, limit |-> request.limit,
                     pages |-> pages_scanned]
    /\ request' = NoRequest
    /\ new_summaries' = <<>>
    /\ current_page_token' = "None"
    /\ pages_scanned' = 0
    /\ gmail_pc' = "idle"
    /\ UNCHANGED <<stored, summarizeVars, callVars, aiVars>>

\* the loop condition is false
GmailLoopExit ==
    /\ gmail_pc = "while"
    /\ ~WhileCondition
    /\ gmail_pc' = "return"
    /\ UNCHANGED <<request, new_summaries, current_page_token, pages_scanned,
                   response, storeVars, summarizeVars, callVars, aiVars>>

\* return EmailListResponse(...); the locals of the handler are gone
GmailRespond ==
    /\ gmail_pc = "return"
    /\ response' = [total |-> Len(new_summaries), data |-> new_summaries,
                    next_page_token |-> current_page_token]
    /\ last_call' = [op |-> "fetch_gmail", status |-> 200, limit |-> request.limit,
                     pages |-> pages_scanned]
    /\ request' = NoRequest
    /\ new_summaries' = <<>>
    /\ current_page_token' = "None"
    /\ pages_scanned' = 0
    /\ gmail_pc' = "idle"
    /\ UNCHANGED <<stored, summarizeVars, callVars, aiVars>>

\* the statements of a handler that has started: the event loop runs the
\* coroutine until it returns, and fetch_gmail_emails returns
GmailStep ==
    \/ \E raw_emails \in GmailPages(request.limit), next_page_token \in {"None", "tok"} :
          GmailFetchPage(raw_emails, next_page_token)
    \/ GmailFetchRaises
    \/ GmailLoopExit
    \/ GmailRespond

\* a request with any int as limit (FetchEmailsRequest validates nothing),
\* a statement of the running request, or DELETE /emails between requests
NextGmail ==
    \/ \E limit \in -1..MaxLimit, page_token \in {"None", response.next_page_token} :
          GmailStart(limit, page_token)
    \/ GmailStep
    \/ gmail_pc = "idle" /\ ClearAllSummaries

SpecGmail == InitStorage /\ [][NextGmail]_vars

SpecGmailFair == SpecGmail /\ WF_vars(GmailStep)

(***************************************************************************)
(* Properties of summarize.  They are stated on the variables the call     *)
(* leaves behind, with a join, a blank test and a score written out here   *)
(* rather than taken from the operators above.                             *)
(***************************************************************************)
\* s is empty or holds whitespace only
AllSpace(s) == \A i \in 1..Len(s) : IsSpace(Ch(s, i))

\* the strings of strs with one space between neighbours
Spaced(strs) ==
    Glue([k \in 1..Len(strs) |-> IF k = 1 THEN strs[k] ELSE " " \o strs[k]])

\* the scoring loop has just filled scored_sentences, in sentence order
Scored == pc = "scored"

\* the original indices of the selected sentences
SelectedIndices == {top_sentences[k][1] : k \in 1..Len(top_sentences)}

\* C1 (amended): with max_sentences >= 1 a call that has returned has
\* returned a non-empty string, whichever return statement ended it.
NonEmptyOutput == (Returned /\ max_sentences >= 1) => result # ""

NonEmptyOutputWitness ==
    pc = "return_summary" /\ max_sentences >= 1 /\ result # ""

\* C1 as stated: the same for every integer max_sentences.
NonEmptyOutputAnyMax == Returned => result # ""

\* the places of the body of summarize, in the order the control flow passes
\* them; every return statement is last
Rank(p) ==
    CASE p = "start" -> 0
      [] p = "cleaned" -> 1
      [] p = "split" -> 2
      [] p = "counted" -> 3
      [] p = "scored" -> 4
      [] p = "selected" -> 5
      [] OTHER -> 6

\* C2: for every text and every integer max_sentences, summarize never
\* leaves by an exception, and every step takes it to a later place of its
\* body: after at most six steps it stands at a return statement.
AlwaysReturns ==
    /\ [](pc # "raised" /\ (Rank(pc) = 6 => Returned))
    /\ [][Rank(pc') > Rank(pc)]_vars

AlwaysReturnsWitness ==
    /\ pc = "return_summary"
    /\ max_sentences < 0
    /\ \E k \in 1..Len(scored_sentences) :
          QualifyingWords(scored_sentences[k][2]) = <<>>

\* C3: when there are more candidate sentences than max_sentences, the
\* selected sentences stand in strictly ascending original index in the
\* selection and in the returned text, whatever their scores are.
OrderPreserved ==
    (Returned /\ sentences # <<>> /\ Len(sentences) > max_sentences) =>
        /\ \A a, b \in 1..Len(top_sentences) :
              a < b => top_sentences[a][1] < top_sentences[b][1]
        /\ \A a \in 1..Len(top_sentences) :
              /\ top_sentences[a][1] \in 0..(Len(sentences) - 1)
              /\ top_sentences[a][2] = sentences[top_sentences[a][1] + 1]
        /\ result = Spaced([k \in 1..Len(top_sentences) |-> top_sentences[k][2]])

\* a sentence with a later index ranks above one with an earlier index, and
\* both are selected
OrderPreservedWitness ==
    /\ pc = "return_summary"
    /\ \E a, b \in 1..Len(top_sentences) :
          a < b /\ scored_sentences[a][1] > scored_sentences[b][1]

\* C4: with 1 <= max_sentences < n exactly max_sentences sentences are
\* selected, no unselected sentence has a greater score than a selected one,
\* and of two sentences with equal scores the one with the lower index is
\* selected first.
TopSelection ==
    (pc \in {"selected", "return_summary"} /\ max_sentences >= 1) =>
        /\ Len(top_sentences) = max_sentences
        /\ Cardinality(SelectedIndices) = max_sentences
        /\ \A x, y \in 1..Len(scored_sentences) :
              (/\ scored_sentences[x][1] \in SelectedIndices
               /\ scored_sentences[y][1] \notin SelectedIndices) =>
                  /\ RLeq(scored_sentences[y][3], scored_sentences[x][3])
                  /\ REq(scored_sentences[y][3], scored_sentences[x][3]) =>
                        scored_sentences[x][1] < scored_sentences[y][1]

\* a selected and an unselected sentence have the same score
TopSelectionWitness ==
    /\ pc = "return_summary"
    /\ max_sentences >= 1
    /\ \E x, y \in 1..Len(scored_sentences) :
          /\ scored_sentences[x][1] \in SelectedIndices
          /\ scored_sentences[y][1] \notin SelectedIndices
          /\ REq(scored_sentences[y][3], scored_sentences[x][3])

\* C5: a cleaned text of at least 50 characters with between 1 and
\* max_sentences candidate sentences is returned as those sentences, trimmed,
\* in their order, one space between them; nothing is counted or scored.
ShortInputJoined ==
    (/\ Returned
     /\ Len(cleaned_text) >= 50
     /\ 1 <= Len(sentences)
     /\ Len(sentences) <= max_sentences) =>
        /\ result = Spaced(sentences)
        /\ \A k \in 1..Len(sentences) :
              /\ ~IsSpace(Ch(sentences[k], 1))
              /\ ~IsSpace(Ch(sentences[k], Len(sentences[k])))
        /\ word_freq = <<>>
        /\ scored_sentences = <<>>
        /\ top_sentences = <<>>

\* exactly at the limit: three sentences, max_sentences = 3
ShortInputJoinedWitness ==
    pc = "return_all" /\ Len(sentences) = 3 /\ max_sentences = 3

\* C6: for an empty or whitespace-only text the call returns "No content to
\* summarize." straight from its first test: nothing is cleaned, split or
\* scored.
BlankInput ==
    (pc # "start" /\ AllSpace(text)) =>
        /\ pc = "return_no_content"
        /\ result = "No content to summarize."
        /\ cleaned_text = ""
        /\ sentences = <<>>
        /\ word_freq = <<>>
        /\ scored_sentences = <<>>

\* a text of whitespace only
BlankInputWitness == pc = "return_no_content" /\ text # "" /\ AllSpace(text)

\* C7: for a text that is not blank and whose cleaned text has fewer than 50
\* characters the call returns the cleaned text, or "No meaningful content
\* found." when the cleaned text is empty, without splitting or scoring; a
\* cleaned text of exactly 50 characters does not return here.
ShortCleaned ==
    /\ (pc \notin {"start", "cleaned"} /\ ~AllSpace(text) /\ Len(cleaned_text) < 50) =>
          /\ pc = "return_short"
          /\ result = IF cleaned_text = "" THEN "No meaningful content found."
                      ELSE cleaned_text
          /\ sentences = <<>>
          /\ word_freq = <<>>
          /\ scored_sentences = <<>>
    /\ (pc = "return_short" /\ text = "Hi there. ") => result = "Hi there."
    /\ pc = "return_short" => Len(cleaned_text) # 50

\* a cleaned text of 49 characters
ShortCleanedWitness == pc = "return_short" /\ Len(cleaned_text) = 49

\* C8: when the cleaned text has at least 50 characters and no fragment
\* survives the split, the call returns the cleaned text if it has at most
\* 200 characters and else its first 200 characters followed by "...".
TruncatedFallback ==
    (Returned /\ Len(cleaned_text) >= 50 /\ sentences = <<>>) =>
        result = IF Len(cleaned_text) <= 200 THEN cleaned_text
                 ELSE SubSeq(cleaned_text, 1, 200) \o "..."

\* a cleaned text of exactly 200 characters, returned whole
TruncatedFallbackWitness ==
    pc = "return_truncated" /\ Len(cleaned_text) = 200 /\ result = cleaned_text

\* the number of times the words of ws are counted in freq, summed
RECURSIVE TotalCount(_, _, _)
TotalCount(ws, freq, k) ==
    IF k = 0 THEN 0
    ELSE (IF ws[k] \in DOMAIN freq THEN freq[ws[k]] ELSE 0) + TotalCount(ws, freq, k - 1)

\* the position sub-score of index i among n sentences, in tenths
PositionTenths(i, n) == IF i \in {0, 1} THEN 10 ELSE IF i = n - 1 THEN 5 ELSE 0

\* the score x = <<i, sentence, n/d>> equals 0.5 f + 0.3 p + 0.2 l, where
\* f = c/w is the mean count of the w >= 1 qualifying words, p the position
\* sub-score and l = w/10, 1 or 30/w; the equation is multiplied out
IsCombinedScore(x, total) ==
    LET ws == QualifyingWords(x[2])
        w == Len(ws)
        c == TotalCount(ws, word_freq, w)
        p == PositionTenths(x[1], total)
        lnum == IF w < 10 THEN w ELSE IF w <= 30 THEN 1 ELSE 30
        lden == IF w < 10 THEN 10 ELSE IF w <= 30 THEN 1 ELSE w
    IN  x[3][1] * 100 * w * lden
            = x[3][2] * (50 * c * lden + 3 * p * w * lden + 20 * w * lnum)

\* what a sentence with no qualifying words would score with f = 0 and
\* l = 0 : 0.3 p
IsPositionOnlyScore(x, total) ==
    x[3][1] * 100 = x[3][2] * 3 * PositionTenths(x[1], total)

\* C9 (amended): a scored sentence with at least one qualifying word has the
\* score 0.5 frequency + 0.3 position + 0.2 length; a sentence with no
\* qualifying word has the score 0 at every position.
CombinedScore ==
    Scored =>
        \A k \in 1..Len(scored_sentences) :
            IF QualifyingWords(scored_sentences[k][2]) = <<>>
            THEN scored_sentences[k][3][1] = 0 /\ scored_sentences[k][3][2] > 0
            ELSE IsCombinedScore(scored_sentences[k], Len(scored_sentences))

\* a sentence without qualifying words among the first two, and a sentence
\* with qualifying words
CombinedScoreWitness ==
    /\ pc = "scored"
    /\ \E k \in 1..Len(scored_sentences) :
          /\ scored_sentences[k][1] < 2
          /\ QualifyingWords(scored_sentences[k][2]) = <<>>
    /\ \E k \in 1..Len(scored_sentences) :
          QualifyingWords(scored_sentences[k][2]) # <<>>

\* C9 as stated: the sentence with no qualifying word has the score 0.3
\* position too (0.3 at index 0 or 1, 0.15 as the last sentence).
CombinedScoreEverySentence ==
    Scored =>
        \A k \in 1..Len(scored_sentences) :
            IF QualifyingWords(scored_sentences[k][2]) = <<>>
            THEN IsPositionOnlyScore(scored_sentences[k], Len(scored_sentences))
            ELSE IsCombinedScore(scored_sentences[k], Len(scored_sentences))

\* C10: the position sub-score of index i among n sentences is 1.0 for i = 0
\* and i = 1, else 0.5 for i = n - 1, else 0; the first rule wins when both
\* apply.  Two scored copies of one sentence differ by 0.3 times the
\* difference of their position sub-scores.
PositionRule ==
    Scored =>
        LET n == Len(scored_sentences)
        IN  /\ \A k \in 1..n :
                  PositionScore(scored_sentences[k][1], n)
                      = IF scored_sentences[k][1] \in {0, 1} THEN <<1, 1>>
                        ELSE IF scored_sentences[k][1] = n - 1 THEN <<1, 2>>
                        ELSE <<0, 1>>
            /\ \A a, b \in 1..n :
                  (/\ scored_sentences[a][2] = scored_sentences[b][2]
                   /\ QualifyingWords(scored_sentences[a][2]) # <<>>) =>
                      100 * (scored_sentences[a][3][1] * scored_sentences[b][3][2]
                             - scored_sentences[b][3][1] * scored_sentences[a][3][2])
                        = 3 * (PositionTenths(scored_sentences[a][1], n)
                               - PositionTenths(scored_sentences[b][1], n))
                            * scored_sentences[a][3][2] * scored_sentences[b][3][2]

\* the last of two sentences: both rules apply to index 1
PositionRuleWitness ==
    /\ pc = "scored"
    /\ Len(scored_sentences) = 2
    /\ scored_sentences[2][1] = 1
    /\ QualifyingWords(scored_sentences[2][2]) # <<>>

(***************************************************************************)
(* Properties of the scoring and of the splitter, checked on the second    *)
(* family of inputs (SpecScore).                                           *)
(***************************************************************************)
\* the number of places of ws that hold w
Occurrences(ws, w) == Cardinality({i \in 1..Len(ws) : ws[i] = w})

\* the sum, over the words of the set words, of the occurrences of the word
\* in ws times its count in freq
RECURSIVE WeightedSum(_, _, _)
WeightedSum(words, ws, freq) ==
    IF words = {} THEN 0
    ELSE LET w == CHOOSE x \in words : TRUE
         IN  Occurrences(ws, w) * (IF w \in DOMAIN freq THEN freq[w] ELSE 0)
                 + WeightedSum(words \ {w}, ws, freq)

\* the score x = <<i, sentence, n/d>> is 0.5 f + 0.3 p + 0.2 l for the
\* fractions f and l and the position sub-score p of index i among total
HasScoreOf(x, total, f, l) ==
    x[3][1] * 100 * f[2] * l[2]
        = x[3][2] * (50 * f[1] * l[2]
                     + 3 * PositionTenths(x[1], total) * f[2] * l[2]
                     + 20 * l[1] * f[2])

\* C11: for a scored sentence with w >= 1 qualifying-word occurrences the
\* frequency sub-score is c / w, where c sums the count in the document's
\* frequency table once for every occurrence (a word that stands twice in
\* the sentence is summed twice); this sub-score enters the score with the
\* weight 0.5.
FrequencySubScore ==
    Scored =>
        \A k \in 1..Len(scored_sentences) :
            LET x == scored_sentences[k]
                ws == QualifyingWords(x[2])
                w == Len(ws)
                c == WeightedSum({ws[i] : i \in 1..w}, ws, word_freq)
                f == FreqScore(ws, word_freq)
            IN  w >= 1 =>
                    /\ f[2] > 0
                    /\ f[1] * w = f[2] * c
                    /\ HasScoreOf(x, Len(scored_sentences), f, LengthScore(w))

\* a scored sentence in which a word stands more than once
FrequencySubScoreWitness ==
    /\ pc = "scored"
    /\ \E k \in 1..Len(scored_sentences) :
          LET ws == QualifyingWords(scored_sentences[k][2])
          IN  \E i, j \in 1..Len(ws) :
                  i < j /\ ws[i] = ws[j] /\ word_freq[ws[i]] >= 2

\* the number of qualifying words of scored sentence k
WordCountOf(k) == Len(QualifyingWords(scored_sentences[k][2]))

\* C12: the length sub-score of a sentence with w >= 1 qualifying words is 1
\* for 10 <= w <= 30, w/10 for w < 10 and 30/w for w > 30; it lies in (0, 1],
\* does not fall as w grows up to 10 and does not rise as w grows from 30
\* on, and it enters the score with the weight 0.2.
LengthSubScore ==
    Scored =>
        \A k \in 1..Len(scored_sentences) :
            LET x == scored_sentences[k]
                ws == QualifyingWords(x[2])
                w == Len(ws)
                l == LengthScore(w)
            IN  w >= 1 =>
                    /\ l[2] > 0
                    /\ (10 <= w /\ w <= 30) => l[1] = l[2]
                    /\ w < 10 => l[1] * 10 = w * l[2]
                    /\ w > 30 => l[1] * w = 30 * l[2]
                    /\ 0 < l[1] /\ l[1] <= l[2]
                    /\ \A j \in 1..Len(scored_sentences) :
                          LET v == WordCountOf(j)
                              m == LengthScore(v)
                          IN  /\ (w <= v /\ v <= 10) => l[1] * m[2] <= m[1] * l[2]
                              /\ (30 <= w /\ w <= v) => m[1] * l[2] <= l[1] * m[2]
                    /\ HasScoreOf(x, Len(scored_sentences),
                                  <<TotalCount(ws, word_freq, w), w>>, l)

\* sentences with 9, 10, 30 and 31 qualifying words are scored together
LengthSubScoreWitness ==
    /\ pc = "scored"
    /\ \A w \in {9, 10, 30, 31} :
          \E k \in 1..Len(scored_sentences) : WordCountOf(k) = w

\* the tokens of s that the pattern of the source finds in s.lower()
Tokens(s) == FindWords(Lower(s))

\* the tokens of s outside the stop-word set, by their places in Tokens(s)
NonStopPlaces(s) == {i \in 1..Len(Tokens(s)) : Tokens(s)[i] \notin STOP_WORDS}

RECURSIVE SumOverPlaces(_, _, _)
SumOverPlaces(places, toks, freq) ==
    IF places = {} THEN 0
    ELSE LET i == CHOOSE x \in places : TRUE
         IN  (IF toks[i] \in DOMAIN freq THEN freq[toks[i]] ELSE 0)
                 + SumOverPlaces(places \ {i}, toks, freq)

\* C13: no stop word is a key of the frequency table, and the score of every
\* sentence is the score that sums and counts only its tokens outside the
\* stop-word set (tokens are compared in lower case).
StopWordsExcluded ==
    /\ DOMAIN word_freq \cap STOP_WORDS = {}
    /\ Scored =>
          \A k \in 1..Len(scored_sentences) :
              LET x == scored_sentences[k]
                  places == NonStopPlaces(x[2])
                  w == Cardinality(places)
                  c == SumOverPlaces(places, Tokens(x[2]), word_freq)
                  l == IF w < 10 THEN <<w, 10>> ELSE IF w <= 30 THEN <<1, 1>> ELSE <<30, w>>
              IN  IF w = 0 THEN x[3][1] = 0
                  ELSE HasScoreOf(x, Len(scored_sentences), <<c, w>>, l)

\* a scored sentence that holds a stop word of three letters written with a
\* capital, and qualifying words too
StopWordsExcludedWitness ==
    /\ pc = "scored"
    /\ word_freq # <<>>
    /\ \E k \in 1..Len(scored_sentences) :
          /\ NonStopPlaces(scored_sentences[k][2]) # {}
          /\ \E i \in 1..Len(scored_sentences[k][2]) :
                StartsWithAt(scored_sentences[k][2], i, "The ")

\* where the run of letters that starts at i ends (one past it)
LetterRunEnd(s, i) ==
    CHOOSE e \in i..(Len(s) + 1) :
        /\ e = Len(s) + 1 \/ ~IsAlpha(Ch(s, e))
        /\ \A j \in i..(e - 1) : IsAlpha(Ch(s, j))

\* a maximal run of at least 3 letters starts at i
LetterRunAt(s, i) ==
    /\ IsAlpha(Ch(s, i))
    /\ i = 1 \/ ~IsAlpha(Ch(s, i - 1))
    /\ LetterRunEnd(s, i) - i >= 3

\* the run at i has no letter, digit or underscore on either side
WholeWordAt(s, i) ==
    /\ LetterRunAt(s, i)
    /\ i = 1 \/ ~IsWordChar(Ch(s, i - 1))
    /\ LetterRunEnd(s, i) > Len(s) \/ ~IsWordChar(Ch(s, LetterRunEnd(s, i)))

\* the table that counts, for every word outside the stop-word set, the
\* places of starts where that word starts in s
TableOf(s, starts) ==
    LET word(i) == SubSeq(s, i, LetterRunEnd(s, i) - 1)
    IN  [w \in {word(i) : i \in starts} \ STOP_WORDS |->
            Cardinality({i \in starts : word(i) = w})]

\* the frequency table has been built
Counted == pc \in {"counted", "scored", "selected", "return_summary"}

\* C14 (amended): the frequency table counts exactly the maximal runs of at
\* least 3 letters of the lower-cased cleaned text that have no letter, digit
\* or underscore on either side, minus the stop words; a run next to a digit
\* or an underscore (the 'abc' of 'abc123') is not counted.
WholeWordTokens ==
    Counted =>
        LET s == Lower(cleaned_text)
        IN  word_freq = TableOf(s, {i \in 1..Len(s) : WholeWordAt(s, i)})

\* the cleaned text holds a run of 3 letters next to a digit or an underscore
WholeWordTokensWitness ==
    /\ pc = "counted"
    /\ word_freq # <<>>
    /\ LET s == Lower(cleaned_text)
       IN  \E i \in 1..Len(s) : LetterRunAt(s, i) /\ ~WholeWordAt(s, i)

\* C14 as stated: the table counts every maximal run of at least 3 letters,
\* the runs next to a digit or an underscore too.
LetterRunTokens ==
    Counted =>
        LET s == Lower(cleaned_text)
        IN  word_freq = TableOf(s, {i \in 1..Len(s) : LetterRunAt(s, i)})

\* the splitter has run
SplitDone == pc \notin {"start", "cleaned", "return_no_content", "return_short"}

\* the fragments between the sentence ends of the cleaned text, trimmed
Fragments == [k \in 1..Len(SplitPieces(cleaned_text)) |-> Strip(SplitPieces(cleaned_text)[k])]

\* C15: the candidate sentences are the trimmed fragments of more than 20
\* characters, in their order (a fragment of 20 characters is dropped, one
\* of 21 is kept); only candidate sentences are scored, and the joined and
\* the scored branch return candidate sentences only.
SentencesAreLong ==
    SplitDone =>
        /\ \A k \in 1..Len(sentences) :
              /\ Len(sentences[k]) > 20
              /\ ~IsSpace(Ch(sentences[k], 1))
              /\ ~IsSpace(Ch(sentences[k], Len(sentences[k])))
        /\ sentences = SelectSeq(Fragments, LAMBDA q : Len(q) >= 21)
        /\ \A k \in 1..Len(scored_sentences) :
              /\ Len(scored_sentences[k][2]) > 20
              /\ \E j \in 1..Len(sentences) :
                    /\ scored_sentences[k][1] = j - 1
                    /\ scored_sentences[k][2] = sentences[j]
        /\ pc = "return_all" => result = Spaced(sentences)
        /\ pc = "return_summary" =>
              /\ result = Spaced([k \in 1..Len(top_sentences) |-> top_sentences[k][2]])
              /\ \A k \in 1..Len(top_sentences) : Len(top_sentences[k][2]) > 20

\* a fragment of exactly 20 characters was dropped and a sentence of exactly
\* 21 characters was scored
SentencesAreLongWitness ==
    /\ pc = "return_summary"
    /\ \E k \in 1..Len(Fragments) : Len(Fragments[k]) = 20
    /\ \E k \in 1..Len(scored_sentences) : Len(scored_sentences[k][2]) = 21

\* the sentences at the places of the set S, in their order
Picked(S) ==
    LET places == SelectSeq([i \in 1..Len(sentences) |-> i], LAMBDA i : i \in S)
    IN  [k \in 1..Len(places) |-> sentences[places[k]]]

\* C16: when there is at least one candidate sentence, the returned text is
\* the candidate sentences at some set of places, each verbatim and once, in
\* their order, with one space between neighbours.
Extractive ==
    (Returned /\ sentences # <<>>) =>
        \E S \in SUBSET (1..Len(sentences)) : result = Spaced(Picked(S))

\* some sentences were selected and some were left out, and a fragment was
\* dropped before
ExtractiveWitness ==
    /\ pc = "return_summary"
    /\ 1 <= Len(top_sentences)
    /\ Len(top_sentences) < Len(sentences)
    /\ Len(Fragments) > Len(sentences)

(***************************************************************************)
(* Properties of the summary that is stored when the classifier is not    *)
(* used (SpecAi).                                                          *)
(***************************************************************************)
\* the summary of the email was appended after a fallback
FellBack == ai_pc \in {"appended_no_model", "appended_error"}

\* C17: when the classifier is not configured, or its call or the parsing
\* of its response fails, the summary stored for the email is what the
\* core's summarize returns for the body of the email.
FallbackIsCoreSummary ==
    FellBack => summaries[Len(summaries)] = SummarizeEmail(email_data.body)

(***************************************************************************)
(* Properties of the calls of summarize_email on the singleton (SpecCalls).*)
(***************************************************************************)
\* the texts whose sentences are scored by the singleton
ScoredTexts == {TeamNotes, BudgetNotes}

\* C18: any two calls of summarize_email that have returned for the same
\* text have returned the same string, whatever calls returned before,
\* between or after them and on whichever threads they ran.
Deterministic ==
    \A p, q \in returned : p[1] = q[1] => p[2] = q[2]

\* a scored text has been summarized twice and another scored text once
DeterministicWitness ==
    \E p, q, r \in returned :
        /\ p[1] \in ScoredTexts
        /\ q[1] = p[1] /\ p[3] = 1 /\ q[3] = 2
        /\ r[1] \in ScoredTexts \ {p[1]}

\* for every text that is summarized, the table of the whole-word letter
\* runs of its cleaned text, in lower case
OwnTable ==
    [txt \in CallTexts |->
        LET s == Lower(CleanText(txt))
        IN  TableOf(s, {i \in 1..Len(s) : WholeWordAt(s, i)})]

\* a call has not started its work: none of its local variables is set
FreshFrame(f) ==
    /\ f.cleaned_text = ""
    /\ f.sentences = <<>>
    /\ f.word_freq = <<>>
    /\ f.scored_sentences = <<>>
    /\ f.top_sentences = <<>>
    /\ f.result = ""

\* C19: in every state of every interleaving of calls on the singleton, the
\* frequency table of a call is the table of that call's own text and its
\* scores are computed from that table alone, a call that starts sees
\* nothing of earlier calls, and the singleton still has the stop-word set
\* and the max_sentences it was made with.
NoSharedState ==
    /\ summarizer.max_sentences = 3
    /\ summarizer.STOP_WORDS = STOP_WORDS
    /\ \A t \in Threads :
          LET f == frame[t]
              n == Len(f.scored_sentences)
          IN  /\ f.pc = "start" => FreshFrame(f)
              /\ f.word_freq # <<>> => f.word_freq = OwnTable[f.text]
              /\ \A k \in 1..n :
                    LET x == f.scored_sentences[k]
                        ws == QualifyingWords(x[2])
                        w == Len(ws)
                    IN  w >= 1 =>
                            HasScoreOf(x, n, <<TotalCount(ws, OwnTable[f.text], w), w>>,
                                       LengthScore(w))

\* both threads hold the table of their own, different document, after
\* another call has returned
NoSharedStateWitness ==
    /\ returned # {}
    /\ frame["t1"].word_freq # <<>>
    /\ frame["t2"].word_freq # <<>>
    /\ frame["t1"].word_freq # frame["t2"].word_freq

\* what summarize_email returns for each text when it is the only call
AloneResult == [txt \in CallTexts |-> SummarizeEmail(txt)]

\* C20: a call that returns on a thread, whatever the other threads were
\* doing between its steps, returns what summarize_email returns for its
\* text when nothing else runs.
ConcurrentAsAlone ==
    \A t \in Threads :
        frame[t].pc \in ReturnSites => frame[t].result = AloneResult[frame[t].text]

\* a call returns its summary while the other thread is in the middle of
\* scoring another text, having built its table
ConcurrentAsAloneWitness ==
    /\ frame["t1"].pc = "return_summary"
    /\ frame["t2"].pc \in {"counted", "scored", "selected"}
    /\ frame["t1"].text # frame["t2"].text

(***************************************************************************)
(* Properties of _clean_text, checked on the third family of inputs        *)
(* (SpecClean).                                                            *)
(***************************************************************************)
\* _clean_text has run in this call
Cleaned == pc \notin {"start", "return_no_content"}

\* the least number of a non-empty set of numbers
Least(S) == CHOOSE x \in S : \A y \in S : x <= y

\* s ends with p
EndsWith(s, p) == Len(s) >= Len(p) /\ SubSeq(s, Len(s) - Len(p) + 1, Len(s)) = p

\* the places of s where two hyphens stand
DashesAt(s) == {i \in 1..(Len(s) - 1) : Ch(s, i) = "-" /\ Ch(s, i + 1) = "-"}

\* two hyphens followed by a line feed, with nothing but whitespace between
DelimiterPlaces(s) ==
    {i \in DashesAt(s) :
        \E j \in (i + 2)..Len(s) :
            /\ Ch(s, j) = "\n"
            /\ \A k \in (i + 2)..(j - 1) : IsSpace(Ch(s, k))}

\* "--" on a line of its own: it starts the line, and only blanks stand
\* between it and the end of the line or of the text
StandaloneDelimiters(s) ==
    {i \in DashesAt(s) :
        /\ i = 1 \/ Ch(s, i - 1) = "\n"
        /\ \A k \in (i + 2)..Len(s) :
              (\A j \in (i + 2)..k : Ch(s, j) # "\n") => Ch(s, k) \in {" ", "\t", "\r"}}

\* a standalone "--" is the last line of s and no line feed ends it
EndsInDelimiter(s) ==
    \E i \in StandaloneDelimiters(s) : \A k \in i..Len(s) : Ch(s, k) # "\n"

\* C21 (amended): the cleaned text is the cleaned text of what stands before
\* the first "--" that is followed by optional whitespace and a line feed,
\* whether that "--" is a line of its own or ends a line of text; a "--"
\* that is the last line of the text, with no line feed after it, is kept.
\* The singleton summarizes the scenario text to its two meeting sentences.
SignatureCut ==
    /\ Cleaned =>
          /\ DelimiterPlaces(text) # {} =>
                cleaned_text = CleanText(SubSeq(text, 1, Least(DelimiterPlaces(text)) - 1))
          /\ (DelimiterPlaces(text) = {} /\ EndsInDelimiter(text)) =>
                EndsWith(cleaned_text, "--")
    /\ (Returned /\ text = SignatureScenario /\ max_sentences = DefaultMaxSentences) =>
          result = MeetingBody

\* the scenario text has been summarized
SignatureCutWitness ==
    /\ pc = "return_all"
    /\ text = SignatureScenario
    /\ max_sentences = DefaultMaxSentences
    /\ DelimiterPlaces(text) # {}

\* C21 as stated: whenever the text has a standalone "--" line, the last
\* line included, the cleaned text is the cleaned text of what stands before
\* that line (or before an earlier "--").
StandaloneSignatureCut ==
    (Cleaned /\ StandaloneDelimiters(text) # {}) =>
        \E k \in {j \in DashesAt(text) : j <= Least(StandaloneDelimiters(text))} :
            cleaned_text = CleanText(SubSeq(text, 1, k - 1))

\* the text that the signature step leaves: text up to the first "--" with a
\* line feed after it
BeforeSignature ==
    IF DelimiterPlaces(text) = {} THEN text
    ELSE SubSeq(text, 1, Least(DelimiterPlaces(text)) - 1)

\* the places of s where "Sent from my" or "Get Outlook for" stands, in any
\* mix of capitals and small letters
PhrasePlaces(s) ==
    LET ls == Lower(s)
    IN  {i \in 1..Len(s) :
            StartsWithAt(ls, i, "sent from my") \/ StartsWithAt(ls, i, "get outlook for")}

\* the phrases that start a line of s
BoilerplateLines(s) == {i \in PhrasePlaces(s) : i = 1 \/ Ch(s, i - 1) = "\n"}

\* s without the part of each line that starts with a phrase; the line
\* feeds stay, and so do the lines after
LinesCut(s) ==
    LET occ == PhrasePlaces(s)
    IN  Glue([i \in 1..Len(s) |->
                IF \E j \in occ : j <= i /\ \A k \in j..i : Ch(s, k) # "\n"
                THEN "" ELSE Ch(s, i)])

\* C22 (amended): clean removes each occurrence of "Sent from my" and of
\* "Get Outlook for", in any case, together with the rest of its line and
\* nothing else: the text before it on the line and the text on later lines
\* go on to the removal of quotes, attributions and URLs.
BoilerplateLineCut ==
    /\ Cleaned =>
          cleaned_text =
              Strip(CollapseSpace(RemoveUrls(RemoveAttribution(RemoveQuoted(
                  LinesCut(BeforeSignature))))))
    /\ (Cleaned /\ text = CleanPieces[4]) =>
          cleaned_text = "The new office opens on Monday morning."

\* a boilerplate line with text on a later line, and a phrase in capitals
\* inside a line
BoilerplateLineCutWitness ==
    /\ Cleaned
    /\ \E b \in BoilerplateLines(BeforeSignature) :
          \E k \in b..Len(BeforeSignature) :
              /\ Ch(BeforeSignature, k) = "\n"
              /\ \E n \in k..Len(BeforeSignature) : ~IsSpace(Ch(BeforeSignature, n))
    /\ \E i \in PhrasePlaces(BeforeSignature) \ BoilerplateLines(BeforeSignature) :
          ~StartsWithAt(BeforeSignature, i, "Get Outlook for")
    /\ cleaned_text # ""

\* C22 as stated: when a line of the text starts with one of the phrases,
\* everything from the first such line to the end of the text is removed.
BoilerplateCutsRest ==
    (Cleaned /\ BoilerplateLines(BeforeSignature) # {}) =>
        cleaned_text = CleanText(SubSeq(text, 1, Least(BoilerplateLines(BeforeSignature)) - 1))

\* a match of one of the removal patterns of _clean_text starts at place i
\* of s
PatternAt(s, i) ==
    \/ SignatureAt(s, i)
    \/ i \in PhrasePlaces(s)
    \/ QuotedAt(s, i)
    \/ WroteOf(s, i) > 0
    \/ UrlBodyStart(s, i) > 0

\* C23: the text that clean returns holds no match of a removal pattern: no
\* signature block, no client boilerplate, no line that begins with ">", no
\* "On ... wrote:" and no URL.
NoPatternRemains ==
    Cleaned => \A i \in 1..Len(cleaned_text) : ~PatternAt(cleaned_text, i)

(***************************************************************************)
(* Further properties of summarize, checked on the first family of inputs  *)
(* (Spec).                                                                 *)
(***************************************************************************)
\* C24 (amended): when the cleaned text is empty the call returns the fixed
\* message "No meaningful content found."; when it is not empty and shorter
\* than 50 characters the call returns the cleaned text itself, not the
\* message.
MeaningfulShortKept ==
    /\ (Returned /\ ~AllSpace(text) /\ cleaned_text = "") =>
          result = "No meaningful content found."
    /\ (Returned /\ cleaned_text # "" /\ Len(cleaned_text) < 50) =>
          /\ result = cleaned_text
          /\ result # "No meaningful content found."

\* a text that is not blank and that cleaning empties
MeaningfulShortKeptWitness ==
    /\ pc = "return_short"
    /\ ~AllSpace(text)
    /\ cleaned_text = ""
    /\ result = "No meaningful content found."

\* C24 as stated: the fixed message is returned for every cleaned text that
\* is empty or shorter than 50 characters.
ShortIsFixedMessage ==
    (Returned /\ ~AllSpace(text) /\ Len(cleaned_text) < 50) =>
        result = "No meaningful content found."

(***************************************************************************)
(* A further property of the scoring, checked on the second family of      *)
(* inputs (SpecScore).                                                     *)
(***************************************************************************)
\* the fragments of the cleaned text that are long enough to be sentences,
\* by their number among all fragments
Survivors == {r \in 1..Len(Fragments) : Len(Fragments[r]) > 20}

\* C25: the position a sentence is scored with is its index among the
\* surviving fragments, counted from 0 after the short fragments have gone,
\* and the total is the number of survivors: the k-th scored sentence is the
\* k-th survivor and its score is the combined score for that index, so a
\* dropped leading fragment takes no first-two bonus and the last survivor
\* has the last-sentence bonus whatever fragments follow it.
SurvivorPositions ==
    Scored =>
        /\ Len(scored_sentences) = Cardinality(Survivors)
        /\ \A r \in Survivors :
              LET i == Cardinality({q \in Survivors : q < r})
                  x == scored_sentences[i + 1]
              IN  /\ x[1] = i
                  /\ x[2] = Fragments[r]
                  /\ IF QualifyingWords(x[2]) = <<>> THEN x[3][1] = 0
                     ELSE IsCombinedScore(<<i, Fragments[r], x[3]>>, Cardinality(Survivors))

\* a fragment is dropped before the first sentence and another after the
\* last of three: the second survivor is the third fragment, the last
\* survivor is not the last fragment, and both have qualifying words
SurvivorPositionsWitness ==
    /\ Scored
    /\ Cardinality(Survivors) = 3
    /\ 1 \notin Survivors
    /\ Len(Fragments) \notin Survivors
    /\ \A k \in 1..3 : QualifyingWords(scored_sentences[k][2]) # <<>>

(***************************************************************************)
(* A property of the ranking, checked on the fourth family of inputs       *)
(* (SpecRank).                                                             *)
(***************************************************************************)
\* the scoring loop has run: its scores stand in scored_sentences
ScoresKnown == pc \in {"scored", "selected", "return_summary"}

\* the qualifying words of each scored sentence, in the order of
\* scored_sentences
ScoredWords == [k \in 1..Len(scored_sentences) |-> QualifyingWords(scored_sentences[k][2])]

\* C26: in the scored branch every qualifying word of a candidate sentence
\* is counted at least once in the frequency table; a sentence with a
\* qualifying word has a frequency sub-score of at least 1 and a score above
\* 0.5, a sentence with none has the score 0, and after the sort every
\* sentence with a qualifying word stands before every sentence with none,
\* whatever their positions in the text are.
WordsOutrankNone ==
    ScoresKnown =>
        LET words == ScoredWords
        IN  /\ \A k \in 1..Len(scored_sentences) :
                  LET ws == words[k]
                      score == scored_sentences[k][3]
                  IN  /\ \A j \in 1..Len(ws) :
                            ws[j] \in DOMAIN word_freq /\ word_freq[ws[j]] >= 1
                      /\ ws # <<>> =>
                            /\ TotalCount(ws, word_freq, Len(ws)) >= Len(ws)
                            /\ score[2] > 0 /\ 2 * score[1] > score[2]
                      /\ ws = <<>> => score[1] = 0
            /\ pc # "scored" =>
                  \A a, b \in 1..Len(scored_sentences) :
                      (words[a] # <<>> /\ words[b] = <<>>) => a < b

\* the first sentence of the text has no qualifying word, a sentence that is
\* neither among the first two nor the last has one, and the sort has put
\* the second before the first
WordsOutrankNoneWitness ==
    /\ pc = "selected"
    /\ \E a, b \in 1..Len(scored_sentences) :
          /\ a < b
          /\ ScoredWords[a] # <<>>
          /\ scored_sentences[a][1] \notin {0, 1, Len(scored_sentences) - 1}
          /\ ScoredWords[b] = <<>>
          /\ scored_sentences[b][1] = 0

(***************************************************************************)
(* Properties of storage.py (SpecStorage).                                 *)
(***************************************************************************)
\* the place of the first record of list with the id x
FirstWithId(list, x) ==
    CHOOSE k \in 1..Len(list) : list[k].id = x /\ \A j \in 1..(k - 1) : list[j].id # x

\* C27: from an empty storage file on, no two stored records have the same
\* id.  save_summaries_batch leaves the records it found as they were and
\* where they were, appends for each new id the first summary of the batch
\* with that id, and returns the number of new ids; save_summary replaces
\* the record with its id where it stands, or appends.
UniqueIds ==
    /\ \A i, j \in 1..Len(stored) : i # j => stored[i].id # stored[j].id
    /\ last_call.op = "save_summaries_batch" =>
          LET before == last_call.before
              list == last_call.arg
              added == IdsOf(list) \ IdsOf(before)
          IN  /\ Len(stored) >= Len(before)
              /\ SubSeq(stored, 1, Len(before)) = before
              /\ last_call.ret = Cardinality(added)
              /\ Len(stored) = Len(before) + Cardinality(added)
              /\ \A k \in (Len(before) + 1)..Len(stored) :
                    /\ stored[k].id \in added
                    /\ stored[k] = list[FirstWithId(list, stored[k].id)]
    /\ last_call.op = "save_summary" =>
          LET before == last_call.before
              summary == last_call.arg
          IN  IF summary.id \in IdsOf(before)
              THEN /\ Len(stored) = Len(before)
                   /\ \A k \in 1..Len(stored) :
                         stored[k] = IF before[k].id = summary.id THEN summary
                                     ELSE before[k]
              ELSE stored = Append(before, summary)

\* a batch of two summaries with one id that storage did not hold, and with
\* different texts, has been saved on top of a record with another id
UniqueIdsWitness ==
    /\ last_call.op = "save_summaries_batch"
    /\ Len(last_call.arg) = 2
    /\ last_call.arg[1].id = last_call.arg[2].id
    /\ last_call.arg[1] # last_call.arg[2]
    /\ last_call.arg[1].id \notin IdsOf(last_call.before)
    /\ last_call.before # <<>>
    /\ last_call.ret = 1

(***************************************************************************)
(* Properties of the fetch routes (SpecImap, SpecGmail).                   *)
(***************************************************************************)
\* the last call was a request to POST /emails/fetch
Fetched == last_call.op = "fetch_imap"

GmailAnswered == last_call.op = "fetch_gmail"

\* fetch_gmail_emails has been called in the request that is running
GmailPageFetched == gmail_pc \in {"while", "return"} /\ pages_scanned > 0

\* what holds at every statement of the loop: one request makes at most
\* max_pages = 10 calls of fetch_gmail_emails, each of them while fewer than
\* request.limit summaries were collected and fewer than max_pages pages
\* scanned; the loop goes on after a call only if the page was not empty and
\* came with a next-page token, and is left only for one of the four
\* reasons; a request with limit <= 0 makes no call.
GmailLoopStops ==
    /\ pages_scanned \in 0..max_pages
    /\ GmailPageFetched =>
          /\ last_call.op = "fetch_gmail_emails"
          /\ last_call.scanned = pages_scanned - 1
          /\ last_call.scanned < max_pages
          /\ last_call.collected < request.limit
    /\ (GmailPageFetched /\ gmail_pc = "while") =>
          /\ ~last_call.empty
          /\ last_call.next_page_token # "None"
    /\ gmail_pc = "return" =>
          \/ GmailPageFetched /\ last_call.empty
          \/ GmailPageFetched /\ last_call.next_page_token = "None"
          \/ Len(new_summaries) >= request.limit
          \/ pages_scanned = max_pages
    /\ request.limit <= 0 => pages_scanned = 0
    /\ GmailAnswered =>
          /\ last_call.pages \in 0..max_pages
          /\ last_call.limit <= 0 => last_call.pages = 0

\* C29: the Gmail fetch loop always terminates: a request that has started
\* answers, after at most 10 page fetches, and the loop stops as soon as a
\* page is empty, no next-page token is returned, or request.limit
\* summaries are collected; with request.limit <= 0 no page is fetched.
GmailTerminates == []GmailLoopStops /\ ((gmail_pc # "idle") ~> (gmail_pc = "idle"))

\* a request has answered after ten pages
GmailLoopStopsWitness ==
    /\ GmailAnswered
    /\ last_call.status = 200
    /\ last_call.pages = max_pages

\* the larger of two integers
Max2(a, b) == IF a >= b THEN a ELSE b

\* C30: the response of one request holds at most max(0, 2*limit - 1)
\* summaries, every page holding at most limit emails.
GmailTotalBound ==
    (GmailAnswered /\ last_call.status = 200) =>
        /\ response.total = Len(response.data)
        /\ response.total <= Max2(0, 2 * last_call.limit - 1)

\* a response with more summaries than the limit of its request: 2*limit - 1
GmailTotalBoundWitness ==
    /\ GmailAnswered
    /\ last_call.status = 200
    /\ last_call.limit = MaxLimit
    /\ response.total = 2 * last_call.limit - 1
    /\ response.total > last_call.limit

====
